---- MODULE Spec2Model ----
(***************************************************************************)
(* Model of the fetch interceptor of craft-agents-oss                      *)
(* (src/unnamed/part_001): the session-scoped tool metadata store and the  *)
(* SSE metadata-stripping transform.                                       *)
(*                                                                         *)
(* Text is modelled as a sequence of tokens (strings).  A token stands for *)
(* a run of characters that the code never looks inside ("event:", a JSON  *)
(* key/value pair, ...); chunk boundaries may fall between any two tokens. *)
(***************************************************************************)
EXTENDS Integers, Sequences, FiniteSets, TLC

(***************************************************************************)
(* Bounds                                                                  *)
(***************************************************************************)
MaxClock == 1
MaxCalls == 5
MaxEvents == 4
MaxUses == 1
MaxIsoEvents == 3
MaxChunkEvents == 3

(***************************************************************************)
(* Universe of the metadata store                                          *)
(***************************************************************************)
Procs == {"p1", "p2"}
Dirs == {"A", "B"}
NoDir == "null"
ToolUseIds == {"t1", "t2"}
Undefined == "undefined"

\* ToolMetadata { intent?, displayName?, timestamp }
ToolMetadata(intent, displayName, timestamp) ==
  [intent |-> intent, displayName |-> displayName, timestamp |-> timestamp]

Metas == {ToolMetadata("x", "y", 0), ToolMetadata("z", Undefined, 1)}

EmptyMap == [k \in {} |-> ToolMetadata(Undefined, Undefined, 0)]

\* obj[key] = value on a Record<string, ToolMetadata> / Map.set
MapSet(map, key, value) ==
  [k \in (DOMAIN map) \cup {key} |-> IF k = key THEN value ELSE map[k]]

\* delete obj[key] / Map.delete
MapDelete(map, key) == [k \in (DOMAIN map) \ {key} |-> map[k]]

\* a tool-metadata.json file: absent, or a flat JSON object id -> metadata.
\* readable = readFileSync and JSON.parse of it succeed; writable =
\* writeFileSync of the temp file and renameSync onto it succeed
NoFile == [exists |-> FALSE, data |-> EmptyMap, readable |-> TRUE, writable |-> TRUE]
FileOf(map) == [exists |-> TRUE, data |-> map, readable |-> TRUE, writable |-> TRUE]

\* _fileCache: null, or the record last written by this process
NullCache == [set |-> FALSE, data |-> EmptyMap]
CacheOf(map) == [set |-> TRUE, data |-> map]

VARIABLES
  files,        \* disk: session directory -> tool-metadata.json
  sessionDir,   \* _sessionDir of each process
  metadataMap,  \* _metadataMap of each process
  fileCache,    \* _fileCache of each process
  xf,           \* closure state and readable side of each stripping stream
  pending,      \* response bytes of each stream that have not arrived yet
  sent,         \* history: the bytes each stream has consumed
  events,       \* history: the events each stream received one per chunk
  carried,      \* history: the parser state a chunk boundary has cut through
  phase,        \* "open" until flush has run, then "closed"
  calls,        \* number of store calls made so far
  observed,     \* history: entries each process set or loaded under its binding
  stored,       \* history: the ids ever stored under each session directory
  last,         \* history: the last store call, its result and its disk reads
  reqOriginal,  \* the parsed request body before any rewriting
  reqBody,      \* the parsed request body after the rewriting passes so far
  passes,       \* number of rewriting passes applied to reqBody
  env,          \* process.env.ANTHROPIC_BASE_URL
  errorFile,    \* ~/.craft-agent/api-error.json
  clock,        \* Date.now()
  flight,       \* the interceptedFetch call that awaits its response
  requests,     \* history: the requests the call has passed to originalFetch
  outcome,      \* history: what the last finished call gave its caller
  auth,         \* authenticate(): where it stands and its local variables
  server,       \* this.server of the CraftOAuth object
  listening,    \* ports on which a server created by the flow listens
  closed,       \* history: ports whose candidate server the flow has closed
  inUse,        \* ports that other programs hold
  timeout,      \* the flow-wide timer
  codePromise,  \* the deferred authorization-code promise
  keepAlive,    \* a browser connection accepted by the callback server is open
  handled,      \* history: the last request the callback server answered, and their number
  statuses,     \* history: the messages given to callbacks.onStatus
  wire,         \* history: the requests the flow has sent or asked the browser to make
  cancelled,    \* history: cancel() has been called
  discovery,    \* a call that discovers the OAuth metadata, and what it has fetched
  sessionScopedToolsCache,  \* the module's cache of session tool servers
  created,      \* history: number of servers createSdkMcpServer has made
  toolCall      \* history: the last call on the cache and what it returned

storeVars == <<files, sessionDir, metadataMap, fileCache>>
streamVars == <<xf, pending, sent, events, carried, phase>>
histVars == <<calls, observed, stored, last>>
rewriteVars == <<reqOriginal, reqBody, passes>>
fetchVars == <<env, errorFile, clock, flight, requests, outcome>>
oauthVars == <<auth, server, listening, closed, inUse, timeout, codePromise, keepAlive,
               handled, statuses, wire, cancelled, discovery>>
toolVars == <<sessionScopedToolsCache, created, toolCall>>
callVars == <<rewriteVars, fetchVars, oauthVars, toolVars>>

(***************************************************************************)
(* Metadata store (part_001:161-250)                                       *)
(***************************************************************************)
\* getMetadataFilePath: null when no session directory is set
HasFilePath(dir) == dir # NoDir

\* mutant of ReadMetadataFile: a failed read yields what the file held before
ReadMetadataFileStale(disk, dir) ==
  IF ~HasFilePath(dir) THEN EmptyMap
  ELSE IF ~disk[dir].exists THEN EmptyMap
  ELSE disk[dir].data

\* readMetadataFile: {} without a path or when the read or the parse throws
\* (a missing file makes readFileSync throw), else the file's object
ReadMetadataFile(disk, dir) ==
  IF ~HasFilePath(dir) THEN EmptyMap
  ELSE IF ~disk[dir].exists THEN EmptyMap
  ELSE IF ~disk[dir].readable THEN EmptyMap
  ELSE disk[dir].data

\* writeMetadataFile: no-op without a path, else temp file + rename; a
\* failure of either is caught and leaves the file as it was
WriteMetadataFile(disk, dir, allMetadata) ==
  IF ~HasFilePath(dir) THEN disk
  ELSE IF ~disk[dir].writable THEN disk
  ELSE [disk EXCEPT ![dir] = FileOf(allMetadata)]

\* mutant of InitFileCache: the file is read again before every write
InitFileCacheAlways(disk, dir, cache) ==
  [cache |-> CacheOf(ReadMetadataFile(disk, dir)), reads |-> 1]

\* if (!_fileCache) _fileCache = readMetadataFile()
\* reads = the number of readMetadataFile calls this makes
InitFileCache(disk, dir, cache) ==
  IF cache.set THEN [cache |-> cache, reads |-> 0]
  ELSE [cache |-> CacheOf(ReadMetadataFile(disk, dir)), reads |-> 1]

\* mutant of StoreSet: the file is written before the entry enters the shadow
StoreSetWriteFirst(disk, st, toolUseId, metadata) ==
  LET map2 == MapSet(st.map, toolUseId, metadata)
      ini == InitFileCache(disk, st.dir, st.cache)
      cache2 == CacheOf(MapSet(ini.cache.data, toolUseId, metadata))
  IN [disk |-> WriteMetadataFile(disk, st.dir, ini.cache.data),
      st |-> [dir |-> st.dir, map |-> map2, cache |-> cache2],
      reads |-> ini.reads]

\* mutant of StoreSet: only the new entry is written, not the full map
StoreSetOnlyEntry(disk, st, toolUseId, metadata) ==
  LET map2 == MapSet(st.map, toolUseId, metadata)
      cache2 == CacheOf(MapSet(EmptyMap, toolUseId, metadata))
  IN [disk |-> WriteMetadataFile(disk, st.dir, cache2.data),
      st |-> [dir |-> st.dir, map |-> map2, cache |-> cache2],
      reads |-> 0]

\* toolMetadataStore.set as a function of the store of one process
\* st = [dir, map, cache]; returns the new store, the new disk and the reads
StoreSet(disk, st, toolUseId, metadata) ==
  LET map2 == MapSet(st.map, toolUseId, metadata)
      ini == InitFileCache(disk, st.dir, st.cache)
      cache2 == CacheOf(MapSet(ini.cache.data, toolUseId, metadata))
  IN [disk |-> WriteMetadataFile(disk, st.dir, cache2.data),
      st |-> [dir |-> st.dir, map |-> map2, cache |-> cache2],
      reads |-> ini.reads]

\* toolMetadataStore.delete
StoreDelete(disk, st, toolUseId) ==
  LET map2 == MapDelete(st.map, toolUseId)
      ini == InitFileCache(disk, st.dir, st.cache)
      cache2 == CacheOf(MapDelete(ini.cache.data, toolUseId))
  IN [disk |-> WriteMetadataFile(disk, st.dir, cache2.data),
      st |-> [dir |-> st.dir, map |-> map2, cache |-> cache2],
      reads |-> ini.reads]

\* mutant of StoreGet: no fallback to the session file on a miss
StoreGetMemoryOnly(disk, st, toolUseId) ==
  IF toolUseId \in DOMAIN st.map THEN <<st.map[toolUseId]>> ELSE <<>>

\* toolMetadataStore.get: <<m>> when found, <<>> for undefined
StoreGet(disk, st, toolUseId) ==
  IF toolUseId \in DOMAIN st.map THEN <<st.map[toolUseId]>>
  ELSE LET all == ReadMetadataFile(disk, st.dir)
       IN IF toolUseId \in DOMAIN all THEN <<all[toolUseId]>> ELSE <<>>

\* number of readMetadataFile calls made by get
StoreGetReads(st, toolUseId) == IF toolUseId \in DOMAIN st.map THEN 0 ELSE 1

\* mutant of StoreSetSessionDir: the file shadow survives the rebinding
StoreSetSessionDirKeepCache(disk, st, dir) ==
  [dir |-> dir, map |-> ReadMetadataFile(disk, dir), cache |-> st.cache]

\* toolMetadataStore.setSessionDir
StoreSetSessionDir(disk, st, dir) ==
  [dir |-> dir, map |-> ReadMetadataFile(disk, dir), cache |-> NullCache]

(***************************************************************************)
(* Text of an SSE stream                                                   *)
(***************************************************************************)
NL == "\n"
SP == " "
EventPrefix == "event:"
DataPrefix == "data:"
Quote == "\""

IndexTokens == {"0", "1"}
\* content_block values: type and, for tool_use, id and name
ContentBlocks ==
  [type : {"tool_use"}, id : ToolUseIds, name : {"Read"}]
    \cup {[type |-> "tool_use", id |-> "", name |-> "Read"],
          [type |-> "text", id |-> Undefined, name |-> Undefined]}
\* the token that spells a content_block inside a data string
ContentBlockToken(cb) == IF cb.type = "tool_use" THEN "tool_use:" \o cb.id ELSE "text"
DeltaTypes == {"input_json_delta", "text_delta"}

\* key/value pairs of a tool input object, one token each
KvTokens == {"foo=bar", "_intent=x", "_intent=", "_intent=5", "_displayName=y"}
KvKey(tok) ==
  CASE tok = "foo=bar" -> "foo"
    [] tok \in {"_intent=x", "_intent=", "_intent=5"} -> "_intent"
    [] OTHER -> "_displayName"
\* typeof value === 'string'
KvIsString(tok) == tok # "_intent=5"
KvValue(tok) ==
  CASE tok = "foo=bar" -> "bar"
    [] tok = "_intent=x" -> "x"
    [] tok = "_intent=" -> ""
    [] tok = "_intent=5" -> "5"
    [] OTHER -> "y"

RECURSIVE Concat(_)
Concat(seqs) == IF seqs = <<>> THEN <<>> ELSE Head(seqs) \o Concat(Tail(seqs))

\* String.prototype.trim: whitespace removed at both ends
RECURSIVE TrimStart(_)
TrimStart(text) ==
  IF text # <<>> /\ Head(text) = SP THEN TrimStart(Tail(text)) ELSE text

RECURSIVE TrimEnd(_)
TrimEnd(text) ==
  IF text # <<>> /\ text[Len(text)] = SP
  THEN TrimEnd(SubSeq(text, 1, Len(text) - 1)) ELSE text

Trim(text) == TrimEnd(TrimStart(text))

\* String.prototype.split('\n')
RECURSIVE SplitLines(_)
SplitLines(text) ==
  IF \A i \in 1..Len(text) : text[i] # NL THEN <<text>>
  ELSE LET i == CHOOSE j \in 1..Len(text) :
                  text[j] = NL /\ \A k \in 1..(j - 1) : text[k] # NL
       IN <<SubSeq(text, 1, i - 1)>> \o SplitLines(SubSeq(text, i + 1, Len(text)))

\* SSE_EVENT_RE / SSE_DATA_RE on a trimmed line: the capture group, <<>> when
\* the line does not match (the group needs at least one character)
SseRe(prefix, trimmed) ==
  IF trimmed # <<>> /\ Head(trimmed) = prefix THEN TrimStart(Tail(trimmed)) ELSE <<>>

SSE_EVENT_RE(trimmed) == SseRe(EventPrefix, trimmed)
SSE_DATA_RE(trimmed) == SseRe(DataPrefix, trimmed)

(***************************************************************************)
(* JSON of the event data and of the tool input                            *)
(***************************************************************************)
\* JSON.stringify of an event payload { index?, content_block?, delta? }
DataStart(index, cb) == <<"{", index, ContentBlockToken(cb), "}">>
DataDelta(index, dtype, partialJson) ==
  <<"{", index, dtype, Quote>> \o partialJson \o <<Quote, "}">>
DataStop(index) == <<"{", index, "}">>
DataOther == <<"{", "}">>

NoContentBlock == [type |-> Undefined, id |-> Undefined, name |-> Undefined]
NoDelta == [type |-> Undefined, partial_json |-> <<>>]

\* JSON.parse(dataStr): ok = FALSE when it throws, absent fields undefined
JsonParseData(dataStr) ==
  LET n == Len(dataStr)
      bad == [ok |-> FALSE, index |-> Undefined,
              content_block |-> NoContentBlock, delta |-> NoDelta]
  IN IF n < 2 \/ dataStr[1] # "{" \/ dataStr[n] # "}" THEN bad
     ELSE LET body == SubSeq(dataStr, 2, n - 1)
              index == IF body # <<>> /\ body[1] \in IndexTokens THEN body[1] ELSE Undefined
              rest == IF index = Undefined THEN body ELSE Tail(body)
          IN IF rest = <<>>
             THEN [ok |-> TRUE, index |-> index,
                   content_block |-> NoContentBlock, delta |-> NoDelta]
             ELSE IF Len(rest) = 1 /\ \E cb \in ContentBlocks : ContentBlockToken(cb) = rest[1]
             THEN [ok |-> TRUE, index |-> index,
                   content_block |-> CHOOSE cb \in ContentBlocks : ContentBlockToken(cb) = rest[1],
                   delta |-> NoDelta]
             ELSE IF Len(rest) >= 3 /\ rest[1] \in DeltaTypes /\ rest[2] = Quote
                       /\ rest[Len(rest)] = Quote
                       /\ \A i \in 3..(Len(rest) - 1) : rest[i] # Quote
             THEN [ok |-> TRUE, index |-> index, content_block |-> NoContentBlock,
                   delta |-> [type |-> rest[1],
                              partial_json |-> SubSeq(rest, 3, Len(rest) - 1)]]
             ELSE bad

\* does JSON.parse(bufferedJson) return an object
IsJsonObject(text) ==
  /\ Len(text) >= 2
  /\ text[1] = "{"
  /\ text[Len(text)] = "}"
  /\ \A i \in 2..(Len(text) - 1) : text[i] \in KvTokens

\* the object built from the first n pairs: a repeated key keeps its place
\* and takes the later value
RECURSIVE ObjectOf(_, _)
ObjectOf(pairs, n) ==
  IF n = 0 THEN <<>>
  ELSE LET obj == ObjectOf(pairs, n - 1)
           tok == pairs[n]
       IN IF \E j \in 1..Len(obj) : KvKey(obj[j]) = KvKey(tok)
          THEN [j \in 1..Len(obj) |-> IF KvKey(obj[j]) = KvKey(tok) THEN tok ELSE obj[j]]
          ELSE Append(obj, tok)

\* JSON.parse of an object text
JsonParseObject(text) == ObjectOf(SubSeq(text, 2, Len(text) - 1), Len(text) - 2)

\* typeof parsed[key] === 'string' ? parsed[key] : undefined
StringField(obj, key) ==
  IF \E j \in 1..Len(obj) : KvKey(obj[j]) = key /\ KvIsString(obj[j])
  THEN KvValue(obj[CHOOSE j \in 1..Len(obj) : KvKey(obj[j]) = key])
  ELSE Undefined

\* mutant of DeleteField: the key stays in the object
DeleteFieldKeep(obj, key) == obj

\* delete parsed[key]
DeleteField(obj, key) == SelectSeq(obj, LAMBDA tok : KvKey(tok) # key)

\* JSON.stringify(parsed)
JsonStringifyObject(obj) == <<"{">> \o obj \o <<"}">>

\* truthiness of a string | undefined
Truthy(v) == v # Undefined /\ v # ""

(***************************************************************************)
(* SSE metadata stripping (part_001:439-677)                               *)
(* w = [trackedBlocks, lineBuffer, currentEventType, currentData, out,     *)
(*      disk, st]: the closure state of one transform, its readable side,  *)
(* and the disk and metadata store of the process it runs in.              *)
(***************************************************************************)
ContentBlockStart == <<"content_block_start">>
ContentBlockDelta == <<"content_block_delta">>
ContentBlockStop == <<"content_block_stop">>

\* mutant of TrackedHas: no block is ever found tracked
TrackedHasNever(blocks, index) == FALSE

\* trackedBlocks: Map<number, TrackedToolBlock> in insertion order
TrackedHas(blocks, index) == \E j \in 1..Len(blocks) : blocks[j].index = index
TrackedGet(blocks, index) ==
  blocks[CHOOSE j \in 1..Len(blocks) : blocks[j].index = index]
TrackedSet(blocks, block) ==
  IF TrackedHas(blocks, block.index)
  THEN [j \in 1..Len(blocks) |->
          IF blocks[j].index = block.index THEN block ELSE blocks[j]]
  ELSE Append(blocks, block)
TrackedDelete(blocks, index) == SelectSeq(blocks, LAMBDA b : b.index # index)

\* the text `event: ${eventType}\ndata: ${dataStr}\n\n`
SseText(eventType, dataStr) ==
  <<EventPrefix, SP>> \o eventType \o <<NL, DataPrefix, SP>> \o dataStr \o <<NL, NL>>

\* mutant of EmitSseEvent: the event is enqueued twice
EmitSseEventTwice(w, eventType, dataStr) ==
  [w EXCEPT !.out = @ \o <<SseText(eventType, dataStr), SseText(eventType, dataStr)>>]

\* emitSseEvent: one enqueued chunk per event
EmitSseEvent(w, eventType, dataStr) ==
  [w EXCEPT !.out = Append(@, SseText(eventType, dataStr))]

\* mutant of EmitBufferedBlock: unparseable buffered content is dropped
EmitBufferedBlockDropRaw(w, block, index, ts) ==
  IF block.bufferedJson = <<>> THEN w
  ELSE IF IsJsonObject(block.bufferedJson)
  THEN LET parsed == JsonParseObject(block.bufferedJson)
           intent == StringField(parsed, "_intent")
           displayName == StringField(parsed, "_displayName")
           r == StoreSet(w.disk, w.st, block.id, ToolMetadata(intent, displayName, ts))
           w1 == IF Truthy(intent) \/ Truthy(displayName)
                 THEN [w EXCEPT !.disk = r.disk, !.st = r.st]
                 ELSE w
           cleanJson == JsonStringifyObject(
                          DeleteField(DeleteField(parsed, "_intent"), "_displayName"))
       IN EmitSseEvent(w1, ContentBlockDelta,
                       DataDelta(index, "input_json_delta", cleanJson))
  ELSE w

\* emitBufferedBlock
EmitBufferedBlock(w, block, index, ts) ==
  IF block.bufferedJson = <<>> THEN w
  ELSE IF IsJsonObject(block.bufferedJson)
  THEN LET parsed == JsonParseObject(block.bufferedJson)
           intent == StringField(parsed, "_intent")
           displayName == StringField(parsed, "_displayName")
           r == StoreSet(w.disk, w.st, block.id, ToolMetadata(intent, displayName, ts))
           w1 == IF Truthy(intent) \/ Truthy(displayName)
                 THEN [w EXCEPT !.disk = r.disk, !.st = r.st]
                 ELSE w
           cleanJson == JsonStringifyObject(
                          DeleteField(DeleteField(parsed, "_intent"), "_displayName"))
       IN EmitSseEvent(w1, ContentBlockDelta,
                       DataDelta(index, "input_json_delta", cleanJson))
  ELSE EmitSseEvent(w, ContentBlockDelta,
                    DataDelta(index, "input_json_delta", block.bufferedJson))

\* processEvent
ProcessEvent(w, eventType, dataStr, ts) ==
  LET data == JsonParseData(dataStr)
  IN IF ~data.ok THEN EmitSseEvent(w, eventType, dataStr)
     ELSE IF eventType = ContentBlockStart
     THEN LET cb == data.content_block
              w1 == IF cb.type = "tool_use" /\ Truthy(cb.id) /\ cb.name # Undefined
                    THEN [w EXCEPT !.trackedBlocks =
                            TrackedSet(@, [id |-> cb.id, name |-> cb.name,
                                           index |-> data.index, bufferedJson |-> <<>>])]
                    ELSE w
          IN EmitSseEvent(w1, eventType, dataStr)
     ELSE IF eventType = ContentBlockDelta
     THEN IF data.delta.type = "input_json_delta" /\ TrackedHas(w.trackedBlocks, data.index)
          THEN LET block == TrackedGet(w.trackedBlocks, data.index)
               IN [w EXCEPT !.trackedBlocks =
                     TrackedSet(@, [block EXCEPT !.bufferedJson = @ \o data.delta.partial_json])]
          ELSE EmitSseEvent(w, eventType, dataStr)
     ELSE IF eventType = ContentBlockStop
     THEN IF TrackedHas(w.trackedBlocks, data.index)
          THEN LET block == TrackedGet(w.trackedBlocks, data.index)
                   w1 == [w EXCEPT !.trackedBlocks = TrackedDelete(@, data.index)]
               IN EmitSseEvent(EmitBufferedBlock(w1, block, data.index, ts),
                               eventType, dataStr)
          ELSE EmitSseEvent(w, eventType, dataStr)
     ELSE EmitSseEvent(w, eventType, dataStr)

\* the body of `for (const line of lines)` in transform and in flush
ProcessLine(w, line, ts) ==
  LET trimmed == Trim(line)
  IN IF trimmed = <<>>
     THEN LET w1 == IF w.currentEventType # <<>> /\ w.currentData # <<>>
                    THEN ProcessEvent(w, w.currentEventType, w.currentData, ts)
                    ELSE w
          IN [w1 EXCEPT !.currentEventType = <<>>, !.currentData = <<>>]
     ELSE IF SSE_EVENT_RE(trimmed) # <<>>
     THEN [w EXCEPT !.currentEventType = Trim(SSE_EVENT_RE(trimmed))]
     ELSE IF SSE_DATA_RE(trimmed) # <<>>
     THEN [w EXCEPT !.currentData = SSE_DATA_RE(trimmed)]
     ELSE w

RECURSIVE ProcessLines(_, _, _)
ProcessLines(w, lines, ts) ==
  IF lines = <<>> THEN w
  ELSE ProcessLines(ProcessLine(w, Head(lines), ts), Tail(lines), ts)

\* mutant of ChunkText: the buffered partial line is not prepended
ChunkTextNoBuffer(lineBuffer, chunk) == chunk

\* the text a chunk is split from: lineBuffer + decoder.decode(chunk)
ChunkText(lineBuffer, chunk) == lineBuffer \o chunk

\* transform(chunk, controller)
TransformChunk(w, chunk, ts) ==
  LET lines == SplitLines(ChunkText(w.lineBuffer, chunk))
      w1 == [w EXCEPT !.lineBuffer = lines[Len(lines)]]
  IN ProcessLines(w1, SubSeq(lines, 1, Len(lines) - 1), ts)

RECURSIVE EmitRemainingBlocks(_, _, _)
EmitRemainingBlocks(w, blocks, ts) ==
  IF blocks = <<>> THEN w
  ELSE EmitRemainingBlocks(EmitBufferedBlock(w, Head(blocks), Head(blocks).index, ts),
                           Tail(blocks), ts)

\* mutant of FlushStream: the unterminated trailing line is discarded
FlushStreamNoTrailing(w, ts) ==
  LET w2 == EmitRemainingBlocks(w, w.trackedBlocks, ts)
  IN [w2 EXCEPT !.trackedBlocks = <<>>, !.lineBuffer = <<>>]

\* flush(controller)
FlushStream(w, ts) ==
  LET w1 == IF Trim(w.lineBuffer) # <<>>
            THEN LET a == ProcessLines(w, SplitLines(w.lineBuffer), ts)
                 IN IF a.currentEventType # <<>> /\ a.currentData # <<>>
                    THEN ProcessEvent(a, a.currentEventType, a.currentData, ts)
                    ELSE a
            ELSE w
      w2 == EmitRemainingBlocks(w1, w1.trackedBlocks, ts)
  IN [w2 EXCEPT !.trackedBlocks = <<>>, !.lineBuffer = <<>>]

\* responses streamed by the process SseProc
Streams == {"s1", "s2"}
SseProc == "p1"

\* mutant of StrippingStreamOf: one transform shared by all responses
StrippingStreamShared(s) == "s1"

\* stripMetadataFromResponse: every response gets a transform of its own
StrippingStreamOf(s) == s

\* the closure state created by createSseMetadataStrippingStream()
NewStream ==
  [trackedBlocks |-> <<>>, lineBuffer |-> <<>>,
   currentEventType |-> <<>>, currentData |-> <<>>, out |-> <<>>]

World(x, disk, st) ==
  [trackedBlocks |-> x.trackedBlocks, lineBuffer |-> x.lineBuffer,
   currentEventType |-> x.currentEventType, currentData |-> x.currentData,
   out |-> x.out, disk |-> disk, st |-> st]

StreamOf(w) ==
  [trackedBlocks |-> w.trackedBlocks, lineBuffer |-> w.lineBuffer,
   currentEventType |-> w.currentEventType, currentData |-> w.currentData,
   out |-> w.out]

StoreOf(p) == [dir |-> sessionDir[p], map |-> metadataMap[p], cache |-> fileCache[p]]

PutStore(p, st) ==
  /\ sessionDir' = [sessionDir EXCEPT ![p] = st.dir]
  /\ metadataMap' = [metadataMap EXCEPT ![p] = st.map]
  /\ fileCache' = [fileCache EXCEPT ![p] = st.cache]

Call(op, p, id, ret, reads) ==
  [op |-> op, proc |-> p, id |-> id, ret |-> ret, reads |-> reads]

\* one more store call of the bounded run
CountCall ==
  /\ calls < MaxCalls
  /\ calls' = calls + 1

SetSessionDir(p, dir) ==
  /\ CountCall
  /\ PutStore(p, StoreSetSessionDir(files, StoreOf(p), dir))
  /\ observed' = [observed EXCEPT ![p] = ReadMetadataFile(files, dir)]
  /\ last' = Call("setSessionDir", p, dir, <<>>, 1)
  /\ UNCHANGED <<files, streamVars, stored, callVars>>

Set(p, toolUseId, metadata) ==
  LET r == StoreSet(files, StoreOf(p), toolUseId, metadata)
  IN /\ CountCall
     /\ PutStore(p, r.st)
     /\ files' = r.disk
     /\ observed' = [observed EXCEPT ![p] = MapSet(@, toolUseId, metadata)]
     /\ stored' = [stored EXCEPT ![sessionDir[p]] = @ \cup {toolUseId}]
     /\ last' = Call("set", p, toolUseId, <<metadata>>, r.reads)
     /\ UNCHANGED <<streamVars, callVars>>

Get(p, toolUseId) ==
  /\ CountCall
  /\ last' = Call("get", p, toolUseId, StoreGet(files, StoreOf(p), toolUseId),
                  StoreGetReads(StoreOf(p), toolUseId))
  /\ UNCHANGED <<storeVars, streamVars, observed, stored, callVars>>

Delete(p, toolUseId) ==
  LET r == StoreDelete(files, StoreOf(p), toolUseId)
  IN /\ CountCall
     /\ PutStore(p, r.st)
     /\ files' = r.disk
     /\ observed' = [observed EXCEPT ![p] = MapDelete(@, toolUseId)]
     /\ last' = Call("delete", p, toolUseId, <<>>, r.reads)
     /\ UNCHANGED <<streamVars, stored, callVars>>

vars == <<storeVars, streamVars, histVars, callVars>>

\* a session directory is new (no file) or resumed (the file holds entries)
InitialFiles ==
  {NoFile} \cup {FileOf([k \in {"t1"} |-> m]) : m \in Metas}

\* _sessionDir = process.env.CRAFT_SESSION_DIR || null
InitStore ==
  /\ files \in {[d \in Dirs |-> IF d = "A" THEN f ELSE NoFile] : f \in InitialFiles}
  /\ sessionDir \in [Procs -> {"A", NoDir}]
  /\ metadataMap = [p \in Procs |-> EmptyMap]
  /\ fileCache = [p \in Procs |-> NullCache]
  /\ observed = [p \in Procs |-> EmptyMap]
  /\ stored = [d \in Dirs \cup {NoDir} |-> IF d = NoDir THEN {} ELSE DOMAIN files[d].data]
  /\ calls = 0
  /\ last = Call("init", "p1", "t1", <<>>, 0)

(***************************************************************************)
(* Request rewriter (part_001:292-425)                                     *)
(***************************************************************************)
\* an optional value: undefined, or the value
None == <<>>
Some(x) == <<x>>

\* feature flag: when false, only MCP tools get the metadata fields
TOOL_METADATA_FOR_ALL_TOOLS == FALSE
McpPrefix == "mcp__"

\* string.startsWith(prefix) on a string spelled as a sequence of tokens
StartsWith(str, prefix) ==
  Len(prefix) <= Len(str) /\ SubSeq(str, 1, Len(prefix)) = prefix

\* string.includes(token)
Includes(str, tok) == \E i \in 1..Len(str) : str[i] = tok

\* an object as the sequence of its own properties in insertion order
Property(key, value) == [key |-> key, value |-> value]
HasKey(obj, key) == \E i \in 1..Len(obj) : obj[i].key = key

\* the two schema entries the rewriter adds
IntentSchema == [type |-> "string", description |-> "REQUIRED: intent"]
DisplayNameSchema == [type |-> "string", description |-> "REQUIRED: display name"]

\* a tool definition { name?, input_schema?: { properties?, required? } }
Tool(name, inputSchema) == [name |-> name, input_schema |-> inputSchema]
InputSchema(properties, required) == [properties |-> properties, required |-> required]

\* mutant of AddMetadataToTool: the required entries are pushed on every pass
AddMetadataToToolAlways(tool) ==
  LET isMcpTool == tool.name # None /\ StartsWith(tool.name[1], <<McpPrefix>>)
  IN IF ~TOOL_METADATA_FOR_ALL_TOOLS /\ ~isMcpTool THEN tool
     ELSE IF tool.input_schema = None THEN tool
     ELSE IF tool.input_schema[1].properties = None THEN tool
     ELSE LET schema == tool.input_schema[1]
              props == schema.properties[1]
              props1 == IF ~HasKey(props, "_intent")
                        THEN Append(props, Property("_intent", IntentSchema)) ELSE props
              props2 == IF ~HasKey(props1, "_displayName")
                        THEN Append(props1, Property("_displayName", DisplayNameSchema))
                        ELSE props1
              currentRequired == IF schema.required = None THEN <<>> ELSE schema.required[1]
          IN Tool(tool.name,
                  Some(InputSchema(Some(props2),
                                   Some(currentRequired \o <<"_intent", "_displayName">>))))

\* mutant of AddMetadataToTool: the properties are added and the required
\* list is left as it was
AddMetadataToToolKeepRequired(tool) ==
  LET isMcpTool == tool.name # None /\ StartsWith(tool.name[1], <<McpPrefix>>)
  IN IF ~TOOL_METADATA_FOR_ALL_TOOLS /\ ~isMcpTool THEN tool
     ELSE IF tool.input_schema = None THEN tool
     ELSE IF tool.input_schema[1].properties = None THEN tool
     ELSE LET schema == tool.input_schema[1]
              props == schema.properties[1]
              props1 == IF ~HasKey(props, "_intent")
                        THEN Append(props, Property("_intent", IntentSchema)) ELSE props
              props2 == IF ~HasKey(props1, "_displayName")
                        THEN Append(props1, Property("_displayName", DisplayNameSchema))
                        ELSE props1
          IN Tool(tool.name, Some(InputSchema(Some(props2), schema.required)))

\* mutant of AddMetadataToTool: the name of the tool is not looked at
AddMetadataToToolAnyName(tool) ==
  IF tool.input_schema = None THEN tool
  ELSE IF tool.input_schema[1].properties = None THEN tool
  ELSE LET schema == tool.input_schema[1]
           props == schema.properties[1]
           addIntent == ~HasKey(props, "_intent")
           props1 == IF addIntent
                     THEN Append(props, Property("_intent", IntentSchema)) ELSE props
           addDisplayName == ~HasKey(props1, "_displayName")
           props2 == IF addDisplayName
                     THEN Append(props1, Property("_displayName", DisplayNameSchema))
                     ELSE props1
           currentRequired == IF schema.required = None THEN <<>> ELSE schema.required[1]
           r1 == IF Includes(currentRequired, "_intent") THEN currentRequired
                 ELSE Append(currentRequired, "_intent")
           newRequired == IF Includes(currentRequired, "_displayName") THEN r1
                          ELSE Append(r1, "_displayName")
       IN IF ~(addIntent \/ addDisplayName) THEN tool
          ELSE Tool(tool.name, Some(InputSchema(Some(props2), Some(newRequired))))

\* the body of the loop of addMetadataToAllTools for one tool (not null)
AddMetadataToTool(tool) ==
  LET isMcpTool == tool.name # None /\ StartsWith(tool.name[1], <<McpPrefix>>)
  IN IF ~TOOL_METADATA_FOR_ALL_TOOLS /\ ~isMcpTool THEN tool
     ELSE IF tool.input_schema = None THEN tool
     ELSE IF tool.input_schema[1].properties = None THEN tool
     ELSE LET schema == tool.input_schema[1]
              props == schema.properties[1]
              addIntent == ~HasKey(props, "_intent")
              props1 == IF addIntent
                        THEN Append(props, Property("_intent", IntentSchema)) ELSE props
              addDisplayName == ~HasKey(props1, "_displayName")
              props2 == IF addDisplayName
                        THEN Append(props1, Property("_displayName", DisplayNameSchema))
                        ELSE props1
              modified == addIntent \/ addDisplayName
              currentRequired == IF schema.required = None THEN <<>> ELSE schema.required[1]
              r1 == IF Includes(currentRequired, "_intent") THEN currentRequired
                    ELSE Append(currentRequired, "_intent")
              newRequired == IF Includes(currentRequired, "_displayName") THEN r1
                             ELSE Append(r1, "_displayName")
          IN IF ~modified THEN tool
             ELSE Tool(tool.name, Some(InputSchema(Some(props2), Some(newRequired))))

\* a parsed JSON body: null, a number, or an object with optional tools
\* (absent, not an array, or an array whose items are tools or null) and
\* optional messages
JsonNull == [kind |-> "null", tools |-> [kind |-> "absent", items |-> <<>>],
             messages |-> [kind |-> "absent", items |-> <<>>]]
JsonNumber == [kind |-> "number", tools |-> [kind |-> "absent", items |-> <<>>],
               messages |-> [kind |-> "absent", items |-> <<>>]]
NoTools == [kind |-> "absent", items |-> <<>>]
ToolsObject == [kind |-> "object", items |-> <<>>]
ToolsArray(items) == [kind |-> "array", items |-> items]
NoMessages == [kind |-> "absent", items |-> <<>>]
MessagesArray(items) == [kind |-> "array", items |-> items]
BodyObject(tools, messages) == [kind |-> "object", tools |-> tools, messages |-> messages]

\* the outcome of a call that may throw
Threw == [threw |-> TRUE, value |-> JsonNull, reads |-> 0]
Returned(value, reads) == [threw |-> FALSE, value |-> value, reads |-> reads]

\* addMetadataToAllTools: body.tools of null and tool.name of a null item throw
AddMetadataToAllTools(body) ==
  IF body.kind = "null" THEN Threw
  ELSE IF body.kind # "object" \/ body.tools.kind # "array" THEN Returned(body, 0)
  ELSE IF \E i \in 1..Len(body.tools.items) : body.tools.items[i] = None THEN Threw
  ELSE Returned(
         [body EXCEPT !.tools.items =
            [i \in 1..Len(body.tools.items) |-> Some(AddMetadataToTool(body.tools.items[i][1]))]],
         0)

\* a message { role?, content? } whose content is a string or an array of
\* blocks { type?, id?, input? }; null in the messages array is None
Block(type, id, input) == [type |-> type, id |-> id, input |-> input]
StringContent == [kind |-> "string", blocks |-> <<>>]
ArrayContent(blocks) == [kind |-> "array", blocks |-> blocks]
Message(role, content) == [role |-> role, content |-> content]

\* would injection look this block up in the store
NeedsMetadata(block) ==
  /\ block.type = "tool_use"
  /\ Truthy(block.id)
  /\ block.input # None
  /\ ~HasKey(block.input[1], "_intent")
  /\ ~HasKey(block.input[1], "_displayName")

\* mutant of StoredFor: only the in-memory map is looked at
StoredForMemoryOnly(id, map, fileMetadata) ==
  IF id \in DOMAIN map THEN Some(map[id]) ELSE None

\* _metadataMap.get(block.id), else fileMetadata[block.id]
StoredFor(id, map, fileMetadata) ==
  IF id \in DOMAIN map THEN Some(map[id])
  ELSE IF id \in DOMAIN fileMetadata THEN Some(fileMetadata[id])
  ELSE None

\* mutant of InjectBlock: a block that already has a metadata field is not
\* skipped
InjectBlockAgain(block, map, fileMetadata) ==
  IF block.type # "tool_use" \/ ~Truthy(block.id) \/ block.input = None THEN block
  ELSE LET found == StoredFor(block.id, map, fileMetadata)
       IN IF found = None THEN block
          ELSE LET input1 == IF Truthy(found[1].intent)
                             THEN Append(block.input[1], Property("_intent", found[1].intent))
                             ELSE block.input[1]
                   input2 == IF Truthy(found[1].displayName)
                             THEN Append(input1, Property("_displayName", found[1].displayName))
                             ELSE input1
               IN Block(block.type, block.id, Some(input2))

\* the inner loop body of injectMetadataIntoHistory
InjectBlock(block, map, fileMetadata) ==
  IF ~NeedsMetadata(block) THEN block
  ELSE LET found == StoredFor(block.id, map, fileMetadata)
       IN IF found = None THEN block
          ELSE LET input1 == IF Truthy(found[1].intent)
                             THEN Append(block.input[1], Property("_intent", found[1].intent))
                             ELSE block.input[1]
                   input2 == IF Truthy(found[1].displayName)
                             THEN Append(input1, Property("_displayName", found[1].displayName))
                             ELSE input1
               IN Block(block.type, block.id, Some(input2))

\* the outer loop body: only assistant messages with array content
InjectMessage(message, map, fileMetadata) ==
  IF message.role # "assistant" \/ message.content.kind # "array" THEN message
  ELSE Message(message.role,
               ArrayContent([i \in 1..Len(message.content.blocks) |->
                               InjectBlock(message.content.blocks[i], map, fileMetadata)]))

\* injectMetadataIntoHistory: message.role of a null message throws; the file
\* is read once, when the first block misses the in-memory map
InjectMetadataIntoHistory(body, disk, st) ==
  IF body.kind = "null" THEN Threw
  ELSE IF body.kind # "object" \/ body.messages.kind # "array" THEN Returned(body, 0)
  ELSE IF \E i \in 1..Len(body.messages.items) : body.messages.items[i] = None THEN Threw
  ELSE LET msgs == body.messages.items
           misses == \E i \in 1..Len(msgs) :
                       /\ msgs[i][1].role = "assistant"
                       /\ msgs[i][1].content.kind = "array"
                       /\ \E j \in 1..Len(msgs[i][1].content.blocks) :
                            /\ NeedsMetadata(msgs[i][1].content.blocks[j])
                            /\ msgs[i][1].content.blocks[j].id \notin DOMAIN st.map
           fileMetadata == IF misses THEN ReadMetadataFile(disk, st.dir) ELSE EmptyMap
       IN Returned(
            [body EXCEPT !.messages.items =
               [i \in 1..Len(msgs) |-> Some(InjectMessage(msgs[i][1], st.map, fileMetadata))]],
            IF misses THEN 1 ELSE 0)

\* the text of a request body: whether JSON.parse accepts it, the value it
\* parses to, and whether it is spelled as JSON.stringify would spell it
BodyText(valid, compact, value) == [valid |-> valid, compact |-> compact, value |-> value]
InvalidText == BodyText(FALSE, FALSE, JsonNull)

JsonParse(text) == IF text.valid THEN Returned(text.value, 0) ELSE Threw
JsonStringify(value) == BodyText(TRUE, TRUE, value)

\* mutant of RewriteBody: an exception of the history pass is swallowed and
\* the body is sent as far as it was rewritten
RewriteBodySwallow(text, disk, st) ==
  LET parsed == JsonParse(text)
      added == IF parsed.threw THEN Threw ELSE AddMetadataToAllTools(parsed.value)
      injected == IF added.threw THEN Threw
                  ELSE InjectMetadataIntoHistory(added.value, disk, st)
  IN IF injected.threw
     THEN [threw |-> FALSE, text |-> JsonStringify(parsed.value), reads |-> 0]
     ELSE [threw |-> FALSE, text |-> JsonStringify(injected.value),
           reads |-> injected.reads]

\* the body of the try block of interceptedFetch up to the modified init:
\* JSON.parse, the two mutations, JSON.stringify
RewriteBody(text, disk, st) ==
  LET parsed == JsonParse(text)
      added == IF parsed.threw THEN Threw ELSE AddMetadataToAllTools(parsed.value)
      injected == IF added.threw THEN Threw
                  ELSE InjectMetadataIntoHistory(added.value, disk, st)
  IN IF injected.threw THEN [threw |-> TRUE, text |-> text, reads |-> 0]
     ELSE [threw |-> FALSE, text |-> JsonStringify(injected.value),
           reads |-> injected.reads]

(***************************************************************************)
(* Error capture and fetch interceptor (part_001:57-127, 275-290, 679-890) *)
(***************************************************************************)
\* const MAX_ERROR_AGE_MS = 5 * 60 * 1000
MAX_ERROR_AGE_MS == 5 * 60 * 1000

\* LastApiError { status, statusText, message, timestamp }
LastApiError(status, statusText, message, timestamp) ==
  [status |-> status, statusText |-> statusText, message |-> message,
   timestamp |-> timestamp]

\* api-error.json: absent or one error; writable = writeFileSync succeeds
NoErrorFile(writable) ==
  [exists |-> FALSE, error |-> LastApiError(0, "", "", 0), writable |-> writable]

\* mutant of GetStoredError: the file is read but not deleted
GetStoredErrorKeep(efile) ==
  [error |-> IF efile.exists THEN Some(efile.error) ELSE None, efile |-> efile]

\* getStoredError: read, then unlink (pop)
GetStoredError(efile) ==
  IF ~efile.exists THEN [error |-> None, efile |-> efile]
  ELSE [error |-> Some(efile.error), efile |-> NoErrorFile(efile.writable)]

\* setStoredError(error) for an error that is not null: a failed write is caught
SetStoredError(efile, error) ==
  IF efile.writable THEN [exists |-> TRUE, error |-> error, writable |-> TRUE]
  ELSE efile

\* getLastApiError at time now: the popped error if younger than the window
GetLastApiError(efile, now) ==
  LET popped == GetStoredError(efile)
  IN [ret |-> IF popped.error # None /\ now - popped.error[1].timestamp < MAX_ERROR_AGE_MS
              THEN popped.error ELSE None,
      efile |-> popped.efile]

\* URLs and the base URL are strings spelled as token sequences
DefaultBaseUrl == <<"https://api.anthropic.com">>
CustomBaseUrl == <<"https://openrouter.ai/api">>

\* process.env.ANTHROPIC_BASE_URL?.trim() || 'https://api.anthropic.com'
GetConfiguredBaseUrl(e) ==
  IF e = None THEN DefaultBaseUrl
  ELSE IF Trim(e[1]) = <<>> THEN DefaultBaseUrl
  ELSE Trim(e[1])

\* url.startsWith(baseUrl) && url.includes('/messages')
IsApiMessagesUrl(url, e) ==
  StartsWith(url, GetConfiguredBaseUrl(e)) /\ Includes(url, "/messages")

ShouldCaptureApiErrors(url, e) == IsApiMessagesUrl(url, e)

\* fetch input (string | URL | Request) and init { method?, body? }
Input(kind, url) == [kind |-> kind, url |-> url]
NoBody == [kind |-> "none", text |-> InvalidText]
EmptyBody == [kind |-> "empty", text |-> InvalidText]
StringBody(text) == [kind |-> "string", text |-> text]
BytesBody == [kind |-> "bytes", text |-> InvalidText]
RequestInit(method, body) == [method |-> method, body |-> body]
ToUpperCase(method) == IF method = "post" THEN "POST" ELSE method

\* input.url / input.toString() / input
UrlOf(input) == input.url

\* one call of originalFetch
Request(input, init) == [input |-> input, init |-> init]

\* a response body: its text and what JSON.parse makes of it
Content(raw, valid, isNull, errorMessage, message) ==
  [raw |-> raw, valid |-> valid, isNull |-> isNull,
   errorMessage |-> errorMessage, message |-> message]
NoContent == Content("", FALSE, FALSE, None, None)

\* a Response: piped = its body is the readable side of a stripping
\* transform, bodyUsed = the body handed to the caller has been read from
Response(status, statusText, contentType, hasBody, content, readable) ==
  [status |-> status, statusText |-> statusText,
   headers |-> [contentType |-> contentType], hasBody |-> hasBody,
   content |-> content, readable |-> readable, piped |-> FALSE, bodyUsed |-> FALSE]

\* mutant of StripMetadataFromResponse: every response with a body is piped
StripMetadataFromResponseAlways(response) ==
  IF ~response.hasBody THEN response
  ELSE [status |-> response.status, statusText |-> response.statusText,
        headers |-> response.headers, hasBody |-> TRUE, content |-> response.content,
        readable |-> response.readable, piped |-> TRUE, bodyUsed |-> FALSE]

\* stripMetadataFromResponse
StripMetadataFromResponse(response) ==
  IF ~Includes(response.headers.contentType, "text/event-stream") \/ ~response.hasBody
  THEN response
  ELSE [status |-> response.status, statusText |-> response.statusText,
        headers |-> response.headers, hasBody |-> TRUE, content |-> response.content,
        readable |-> response.readable, piped |-> TRUE, bodyUsed |-> FALSE]

\* mutant of ErrorMessage: the raw text is used whenever it is not empty
ErrorMessageRawFirst(response, errorText) ==
  IF errorText # "" THEN errorText ELSE response.statusText

\* the message logResponse computes from the text of the cloned body
ErrorMessage(response, errorText) ==
  LET c == response.content
  IN IF response.hasBody /\ c.valid /\ ~c.isNull
     THEN IF c.errorMessage # None /\ Truthy(c.errorMessage[1]) THEN c.errorMessage[1]
          ELSE IF c.message # None /\ Truthy(c.message[1]) THEN c.message[1]
          ELSE response.statusText
     ELSE IF errorText # "" THEN errorText ELSE response.statusText

\* logResponse with DEBUG off: capture from a clone, return the response
LogResponse(response, url, e, now, efile) ==
  IF ShouldCaptureApiErrors(url, e) /\ response.status >= 400
  THEN LET errorText == IF response.hasBody THEN response.content.raw ELSE ""
           message == IF response.readable THEN ErrorMessage(response, errorText)
                      ELSE response.statusText
       IN [response |-> response,
           efile |-> SetStoredError(efile,
                       LastApiError(response.status, response.statusText, message, now))]
  ELSE [response |-> response, efile |-> efile]

\* the call that awaits originalFetch: stage = "rewritten" inside the try
\* block, "plain" at the final originalFetch, "idle" when no call is pending
Idle ==
  [stage |-> "idle", input |-> Input("string", <<>>), init |-> None,
   matched |-> FALSE, reads |-> 0]
Pending(stage, input, init, matched, reads) ==
  [stage |-> stage, input |-> input, init |-> init, matched |-> matched,
   reads |-> reads]

\* what a finished call gave its caller: the response or the rejection, with
\* the response originalFetch delivered, the stage the call was in and whether
\* the URL matched the messages endpoint when the call was made
NoResponse == Response(0, "", <<>>, FALSE, NoContent, TRUE)
NoOutcome ==
  [kind |-> "none", response |-> NoResponse, received |-> NoResponse,
   stage |-> "idle", matched |-> FALSE, error |-> None]
Resolved(response, received, stage, matched) ==
  [kind |-> "response", response |-> response, received |-> received,
   stage |-> stage, matched |-> matched, error |-> None]
Rejected(stage, matched) ==
  [kind |-> "rejected", response |-> NoResponse, received |-> NoResponse,
   stage |-> stage, matched |-> matched, error |-> None]
\* what getLastApiError returned
Popped(error) ==
  [kind |-> "lastApiError", response |-> NoResponse, received |-> NoResponse,
   stage |-> "idle", matched |-> FALSE, error |-> error]

\* no request body is being rewritten
NoRewrite ==
  /\ reqOriginal = JsonNull
  /\ reqBody = JsonNull
  /\ passes = 0

(***************************************************************************)
(* OAuth flow controller (part_000:24-436)                                 *)
(***************************************************************************)
CALLBACK_PORT_START == 8914
CALLBACK_PORT_END == 8924
CALLBACK_PATH == "/oauth/callback"
Ports == CALLBACK_PORT_START..CALLBACK_PORT_END

\* mutant of RedirectUri: the first port of the range, bound or not
RedirectUriFirst(port) == <<"http://localhost:", CALLBACK_PORT_START, CALLBACK_PATH>>

\* `http://localhost:${port}${CALLBACK_PATH}`
RedirectUri(port) == <<"http://localhost:", port, CALLBACK_PATH>>

\* the discovered OAuthMetadata; both endpoints are present, the
\* registration endpoint is optional
OAuthMetadata(registrationEndpoint) == [registration_endpoint |-> registrationEndpoint]

\* generateState(): the state token of the flow
ExpectedState == "state-1"

\* mutant of RejectCode: the promise is left as it is
RejectCodeNever(promise, error) == promise

\* mutant of ResolveCode: the promise takes the code whatever its state
ResolveCodeAlways(promise, code) == [state |-> "resolved", code |-> code, error |-> <<>>]

\* the deferred code promise; resolveCode and rejectCode settle it once
CodePending == [state |-> "pending", code |-> "", error |-> <<>>]
ResolveCode(promise, code) ==
  IF promise.state = "pending" THEN [state |-> "resolved", code |-> code, error |-> <<>>]
  ELSE promise
RejectCode(promise, error) ==
  IF promise.state = "pending" THEN [state |-> "rejected", code |-> "", error |-> error]
  ELSE promise

\* clearTimeout(timeout)
ClearTimeout(timer) == IF timer = "pending" THEN "cleared" ELSE timer

\* mutant of StopServer: the server is left listening
StopServerNot(srv, ports) == [server |-> srv, listening |-> ports]

\* stopServer(): close this.server and forget it
StopServer(srv, ports) ==
  [server |-> None, listening |-> IF srv = None THEN ports ELSE ports \ {srv[1]}]

\* mutant of IsAddressInUse: every bind error is taken for a port in use
IsAddressInUseAny(err) == TRUE

\* (err as NodeJS.ErrnoException).code === 'EADDRINUSE'
IsAddressInUse(err) == err = "EADDRINUSE"

\* url.searchParams of a callback request: get() gives null (None) or a string
Query(code, state, error) == [code |-> code, state |-> state, error |-> error]

\* the request handler for CALLBACK_PATH: the response status and the promise
HandleCallback(query, expectedState, promise) ==
  IF query.error # None /\ query.error[1] # ""
  THEN [status |-> 400, promise |-> RejectCode(promise, <<"OAuth error: ", query.error[1]>>)]
  ELSE IF query.state # Some(expectedState)
  THEN [status |-> 400, promise |-> RejectCode(promise, <<"OAuth state mismatch">>)]
  ELSE IF query.code = None \/ query.code[1] = ""
  THEN [status |-> 400, promise |-> RejectCode(promise, <<"No authorization code">>)]
  ELSE [status |-> 200, promise |-> ResolveCode(promise, query.code[1])]

\* authenticate(): pc is the await it stands at, or idle, returned, thrown
Auth(pc, metadata, port, clientId, error) ==
  [pc |-> pc, metadata |-> metadata, port |-> port, clientId |-> clientId, error |-> error]

\* requests of the flow: client registration, the authorization URL given
\* to the browser, the token exchange
RegistrationRequest(port) ==
  [kind |-> "register", redirect_uri |-> RedirectUri(port), client_id |-> "",
   state |-> "", code |-> ""]
AuthorizationUrl(clientId, port, state) ==
  [kind |-> "authorize", redirect_uri |-> RedirectUri(port), client_id |-> clientId,
   state |-> state, code |-> ""]
TokenRequest(code, clientId, port) ==
  [kind |-> "token", redirect_uri |-> RedirectUri(port), client_id |-> clientId,
   state |-> "", code |-> code]

\* a request answered by the callback server: the n-th, with its status
Handled(n, path, query, status) == [n |-> n, path |-> path, query |-> query, status |-> status]
NoRequest == Handled(0, "", Query(None, None, None), 0)

\* new URL(mcpUrl): the URL is text as tokens, an origin followed by a path,
\* or by nothing (pathname "/"); any other text makes the constructor throw
Origins == {"https://mcp.example", "http://localhost:3000"}
ParseUrl(mcpUrl) ==
  IF mcpUrl # <<>> /\ mcpUrl[1] \in Origins /\ Len(mcpUrl) <= 2
  THEN [valid |-> TRUE, origin |-> mcpUrl[1],
        pathname |-> IF Len(mcpUrl) = 2 THEN mcpUrl[2] ELSE "/"]
  ELSE [valid |-> FALSE, origin |-> "", pathname |-> ""]

\* getMcpBaseUrl(mcpUrl): the origin, or the text as it is
GetMcpBaseUrl(mcpUrl) ==
  IF ParseUrl(mcpUrl).valid THEN <<ParseUrl(mcpUrl).origin>> ELSE mcpUrl

WELL_KNOWN == "/.well-known/oauth-authorization-server"

\* the candidates of discoverOAuthMetadata, in the order they are tried
Candidates(url) ==
  <<<<url.origin, WELL_KNOWN>>, <<url.origin, WELL_KNOWN, url.pathname>>>>

\* what fetch(url) gives tryFetchMetadata: it rejects, or a response with
\* its ok flag and status, whose json() throws or gives the field values
FetchRejected == [rejected |-> TRUE, ok |-> FALSE, status |-> 0, json |-> FALSE,
                  authorization_endpoint |-> Undefined, token_endpoint |-> Undefined,
                  registration_endpoint |-> None]
MetadataResponse(status, json, authorizationEndpoint, tokenEndpoint, registrationEndpoint) ==
  [rejected |-> FALSE, ok |-> status \in 200..299, status |-> status, json |-> json,
   authorization_endpoint |-> authorizationEndpoint, token_endpoint |-> tokenEndpoint,
   registration_endpoint |-> registrationEndpoint]

\* mutant of TryFetchMetadata: the fields of an OK response are not looked at
TryFetchMetadataAnyOk(response) ==
  IF ~response.rejected /\ response.ok /\ response.json
  THEN Some(OAuthMetadata(response.registration_endpoint))
  ELSE None

\* tryFetchMetadata(url): the metadata, or null
TryFetchMetadata(response) ==
  IF response.rejected THEN None
  ELSE IF response.ok
  THEN IF ~response.json THEN None
       ELSE IF Truthy(response.authorization_endpoint) /\ Truthy(response.token_endpoint)
       THEN Some(OAuthMetadata(response.registration_endpoint))
       ELSE None
  ELSE None

\* the log line of tryFetchMetadata after its fetch
TryFetchLog(response, url) ==
  IF response.rejected THEN <<"  Error fetching ">> \o url
  ELSE IF response.ok
  THEN IF ~response.json THEN <<"  Error fetching ">> \o url
       ELSE IF Truthy(response.authorization_endpoint) /\ Truthy(response.token_endpoint)
       THEN <<"  Found OAuth metadata at ">> \o url
       ELSE <<"  Invalid metadata at ">> \o url
  ELSE <<"  ", response.status, " at ">> \o url

\* a call of checkAuthRequired(), getServerMetadata() in authenticate() or
\* refreshAccessToken(): pc is the await it stands at
Discovery(caller, mcpUrl, pc, next, fetched, result, settled) ==
  [caller |-> caller, mcpUrl |-> mcpUrl, pc |-> pc, next |-> next, fetched |-> fetched,
   result |-> result, outcome |-> settled]

\* what a finished call gave its caller
ReturnedValue(value) == [threw |-> FALSE, value |-> value, error |-> <<>>]
ThrownError(error) == [threw |-> TRUE, value |-> <<>>, error |-> error]

\* the response of the token endpoint: non-OK with a text, or OK with the
\* fields of its JSON body (absent fields undefined)
TokenResponse(status, text, accessToken, refreshToken, expiresIn, tokenType) ==
  [ok |-> status \in 200..299, status |-> status, text |-> text,
   access_token |-> accessToken, refresh_token |-> refreshToken,
   expires_in |-> expiresIn, token_type |-> tokenType]

\* OAuthTokens
OAuthTokens(accessToken, refreshToken, expiresAt, tokenType) ==
  [accessToken |-> accessToken, refreshToken |-> refreshToken, expiresAt |-> expiresAt,
   tokenType |-> tokenType]

\* data.expires_in ? Date.now() + data.expires_in * 1000 : undefined
ExpiresAt(expiresIn, now) ==
  IF expiresIn # None /\ expiresIn[1] # 0 THEN Some(now + expiresIn[1] * 1000) ELSE None

\* exchangeCodeForTokens() once the token endpoint has answered
ExchangeCodeForTokens(response, now) ==
  IF ~response.ok
  THEN ThrownError(<<"Failed to exchange code for tokens: ", response.text>>)
  ELSE ReturnedValue(OAuthTokens(response.access_token, response.refresh_token,
                                 ExpiresAt(response.expires_in, now),
                                 IF Truthy(response.token_type) THEN response.token_type
                                 ELSE "Bearer"))

\* refreshAccessToken() once the token endpoint has answered
RefreshAccessToken(response, refreshToken, now) ==
  IF ~response.ok
  THEN ThrownError(<<"Failed to refresh token">>)
  ELSE ReturnedValue(OAuthTokens(response.access_token,
                                 IF Truthy(response.refresh_token) THEN response.refresh_token
                                 ELSE refreshToken,
                                 ExpiresAt(response.expires_in, now),
                                 IF Truthy(response.token_type) THEN response.token_type
                                 ELSE "Bearer"))

\* no discovery has been called
NoDiscovery == Discovery("none", <<>>, "idle", 1, <<>>, None, <<>>)

\* no session tool server has been asked for
NoSessionTools ==
  /\ sessionScopedToolsCache = <<>>
  /\ created = 0
  /\ toolCall = [op |-> "none", sessionId |-> <<>>, workspaceRootPath |-> <<>>,
                 returned |-> 0]

\* no flow has been started
NoOAuth ==
  /\ auth = Auth("idle", None, CALLBACK_PORT_START, "", <<>>)
  /\ server = None
  /\ listening = {}
  /\ closed = {}
  /\ inUse = {}
  /\ timeout = "unset"
  /\ codePromise = CodePending
  /\ keepAlive = FALSE
  /\ handled = NoRequest
  /\ statuses = <<>>
  /\ wire = <<>>
  /\ cancelled = FALSE
  /\ discovery = NoDiscovery

\* no call has been made: base URL unset, no stored error
NoFetch ==
  /\ env = None
  /\ errorFile = NoErrorFile(TRUE)
  /\ clock = 0
  /\ flight = Idle
  /\ requests = <<>>
  /\ outcome = NoOutcome

NoCalls ==
  /\ NoRewrite
  /\ NoFetch
  /\ NoOAuth
  /\ NoSessionTools

\* no response is being streamed
NoStreams ==
  /\ xf = [s \in Streams |-> NewStream]
  /\ pending = [s \in Streams |-> <<>>]
  /\ sent = [s \in Streams |-> <<>>]
  /\ events = [s \in Streams |-> <<>>]
  /\ carried = [s \in Streams |-> {}]
  /\ phase = [s \in Streams |-> "open"]

Init ==
  /\ InitStore
  /\ NoStreams
  /\ NoCalls

Next ==
  \/ \E p \in Procs, d \in Dirs : SetSessionDir(p, d)
  \/ \E p \in Procs, id \in ToolUseIds, m \in Metas : Set(p, id, m)
  \/ \E p \in Procs, id \in ToolUseIds : Get(p, id)
  \/ \E p \in Procs, id \in ToolUseIds : Delete(p, id)

Spec == Init /\ [][Next]_vars

\* the environment makes reads (read or parse) and writes (write or rename)
\* of a session file fail or succeed from now on
Fault(d, readable, writable) ==
  /\ <<files[d].readable, files[d].writable>> # <<readable, writable>>
  /\ files' = [files EXCEPT ![d].readable = readable, ![d].writable = writable]
  /\ UNCHANGED <<sessionDir, metadataMap, fileCache, streamVars, histVars, callVars>>

\* one process on one session directory whose disk operations may fail
FailProc == "p1"
FailDir == "A"

NextFail ==
  \/ SetSessionDir(FailProc, FailDir)
  \/ \E id \in ToolUseIds, m \in Metas : Set(FailProc, id, m)
  \/ \E id \in ToolUseIds : Get(FailProc, id)
  \/ \E id \in ToolUseIds : Delete(FailProc, id)
  \/ \E r \in BOOLEAN, w \in BOOLEAN : Fault(FailDir, r, w)

SpecFail == Init /\ [][NextFail]_vars

(***************************************************************************)
(* Streaming a provider response through the transform                     *)
(***************************************************************************)
Event(eventType, data) == [eventType |-> eventType, data |-> data]

\* the provider's framing of one event: event line, data line, blank line
StandardFraming(e) ==
  <<EventPrefix, SP>> \o e.eventType \o <<NL, DataPrefix, SP>> \o e.data \o <<NL, NL>>

ToolUse(id) == [type |-> "tool_use", id |-> id, name |-> "Read"]
Start0 == Event(ContentBlockStart, DataStart("0", ToolUse("t1")))
Start1 == Event(ContentBlockStart, DataStart("1", ToolUse("t2")))
Start0Other == Event(ContentBlockStart, DataStart("0", ToolUse("t2")))
StartNoId == Event(ContentBlockStart, DataStart("1", ToolUse("")))
Delta0Open == Event(ContentBlockDelta, DataDelta("0", "input_json_delta", <<"{", "foo=bar">>))
Delta0Meta ==
  Event(ContentBlockDelta,
        DataDelta("0", "input_json_delta", <<"_intent=x", "_displayName=y", "}">>))
Delta0Close == Event(ContentBlockDelta, DataDelta("0", "input_json_delta", <<"}">>))
Delta1Whole ==
  Event(ContentBlockDelta,
        DataDelta("1", "input_json_delta", <<"{", "_intent=", "foo=bar", "}">>))
Delta1Number ==
  Event(ContentBlockDelta, DataDelta("1", "input_json_delta", <<"{", "_intent=5", "}">>))
Delta0Whole ==
  Event(ContentBlockDelta,
        DataDelta("0", "input_json_delta", <<"{", "foo=bar", "_intent=x", "}">>))
Delta0Text == Event(ContentBlockDelta, DataDelta("0", "text_delta", <<"foo=bar">>))
Stop0 == Event(ContentBlockStop, DataStop("0"))
Stop1 == Event(ContentBlockStop, DataStop("1"))
Ping == Event(<<"ping">>, DataOther)
Done == Event(<<"message_stop">>, <<"[DONE]">>)

\* events a provider may send, in any order
Catalogue ==
  {Start0, Start1, StartNoId, Delta0Open, Delta0Meta, Delta0Close, Delta1Whole,
   Delta1Number, Delta0Text, Stop0, Stop1, Ping, Done}
IsoCatalogue == {Start0, Delta0Whole, Delta0Close, Stop0}
ChunkCatalogue == {Start0, Delta0Whole, Stop0, Ping}

Uses(evs, e) == Cardinality({i \in 1..Len(evs) : evs[i] = e})

\* byte streams that are cut off anywhere: the prefixes of framed streams of
\* at most n events
RECURSIVE FramedStreams(_, _)
FramedStreams(cat, n) ==
  IF n = 0 THEN {<<>>}
  ELSE LET shorter == FramedStreams(cat, n - 1)
       IN shorter \cup {evs \o <<e>> : evs \in shorter, e \in cat}

FrameAll(evs) == Concat([i \in 1..Len(evs) |-> StandardFraming(evs[i])])

ChunkInputs ==
  LET streams == {evs \in FramedStreams(ChunkCatalogue, MaxChunkEvents) :
                    \A e \in ChunkCatalogue : Uses(evs, e) <= MaxUses}
  IN UNION {{SubSeq(FrameAll(evs), 1, k) : k \in 0..Len(FrameAll(evs))} : evs \in streams}

Timestamps == 0..MaxClock

WorldOf(s) == World(xf[StrippingStreamOf(s)], files, StoreOf(SseProc))

PutWorld(s, w) ==
  /\ xf' = [xf EXCEPT ![StrippingStreamOf(s)] = StreamOf(w)]
  /\ files' = w.disk
  /\ PutStore(SseProc, w.st)

\* the provider sends event e, which arrives as one chunk
Receive(s, e, ts) ==
  /\ phase[s] = "open"
  /\ pending[s] = <<>>
  /\ Uses(events[s], e) < MaxUses
  /\ PutWorld(s, TransformChunk(WorldOf(s), StandardFraming(e), ts))
  /\ events' = [events EXCEPT ![s] = Append(@, e)]
  /\ sent' = [sent EXCEPT ![s] = @ \o StandardFraming(e)]
  /\ UNCHANGED <<pending, carried, phase, histVars, callVars>>

\* what the transform keeps for the next chunk when n bytes arrive and more follow
CarriedOver(s, n) ==
  LET w == TransformChunk(WorldOf(s), SubSeq(pending[s], 1, n), 0)
  IN IF n = Len(pending[s]) THEN {}
     ELSE (IF w.lineBuffer # <<>> THEN {"lineBuffer"} ELSE {})
            \cup (IF w.currentEventType # <<>> \/ w.currentData # <<>>
                  THEN {"pair"} ELSE {})

\* the next n bytes of the response arrive as one chunk
Transform(s, n, ts) ==
  /\ phase[s] = "open"
  /\ n \in 1..Len(pending[s])
  /\ PutWorld(s, TransformChunk(WorldOf(s), SubSeq(pending[s], 1, n), ts))
  /\ pending' = [pending EXCEPT ![s] = SubSeq(@, n + 1, Len(@))]
  /\ sent' = [sent EXCEPT ![s] = @ \o SubSeq(pending[s], 1, n)]
  /\ carried' = [carried EXCEPT ![s] = @ \cup CarriedOver(s, n)]
  /\ UNCHANGED <<events, phase, histVars, callVars>>

\* the response body ends
Flush(s, ts) ==
  /\ phase[s] = "open"
  /\ pending[s] = <<>>
  /\ PutWorld(s, FlushStream(WorldOf(s), ts))
  /\ phase' = [phase EXCEPT ![s] = "closed"]
  /\ UNCHANGED <<pending, sent, events, carried, histVars, callVars>>

\* the SDK subprocess: session directory from the environment, new session
InitSseStore ==
  /\ files = [d \in Dirs |-> NoFile]
  /\ sessionDir = [p \in Procs |-> IF p = SseProc THEN "A" ELSE NoDir]
  /\ metadataMap = [p \in Procs |-> EmptyMap]
  /\ fileCache = [p \in Procs |-> NullCache]
  /\ observed = [p \in Procs |-> EmptyMap]
  /\ stored = [d \in Dirs \cup {NoDir} |-> {}]
  /\ calls = 0
  /\ last = Call("init", "p1", "t1", <<>>, 0)

\* one response, one event per chunk
InitSse ==
  /\ InitSseStore
  /\ NoStreams
  /\ NoCalls

NextSse ==
  \/ \E e \in Catalogue, ts \in Timestamps :
       Len(events["s1"]) < MaxEvents /\ Receive("s1", e, ts)
  \/ \E ts \in Timestamps : Flush("s1", ts)

SpecSse == InitSse /\ [][NextSse]_vars

\* several responses streamed at the same time, one event per chunk
NextIso ==
  \/ \E s \in Streams, e \in IsoCatalogue, ts \in Timestamps :
       Len(events[s]) < MaxIsoEvents /\ Receive(s, e, ts)
  \/ \E s \in Streams, ts \in Timestamps : Flush(s, ts)

SpecIso == InitSse /\ [][NextIso]_vars

\* two responses of one process, each carrying a tool call of its own
WriteCatalogue(s) ==
  IF s = "s1" THEN {Start0, Delta0Whole, Stop0} ELSE {Start0Other, Delta0Whole, Stop0}

NextWrite ==
  \/ \E s \in Streams, ts \in Timestamps : \E e \in WriteCatalogue(s) :
       Len(events[s]) < MaxIsoEvents /\ Receive(s, e, ts)
  \/ \E s \in Streams, ts \in Timestamps : Flush(s, ts)

SpecWrite == InitSse /\ [][NextWrite]_vars

\* one response cut into chunks at arbitrary places
InitChunk ==
  /\ InitSseStore
  /\ xf = [s \in Streams |-> NewStream]
  /\ pending \in {[s \in Streams |-> IF s = "s1" THEN text ELSE <<>>] : text \in ChunkInputs}
  /\ sent = [s \in Streams |-> <<>>]
  /\ events = [s \in Streams |-> <<>>]
  /\ carried = [s \in Streams |-> {}]
  /\ phase = [s \in Streams |-> "open"]
  /\ NoCalls

NextChunk ==
  \/ \E n \in 1..Len(pending["s1"]), ts \in Timestamps : Transform("s1", n, ts)
  \/ \E ts \in Timestamps : Flush("s1", ts)

SpecChunk == InitChunk /\ [][NextChunk]_vars

(***************************************************************************)
(* Rewriting a request body                                                *)
(***************************************************************************)
MaxTools == 2
MaxPasses == 2

PathSchema == [type |-> "string", description |-> "path"]
CustomSchema == [type |-> "number", description |-> "custom"]

ToolNames == {None, Some(<<McpPrefix, "files">>), Some(<<"Read">>)}
PropertyMaps ==
  {<<>>,
   <<Property("path", PathSchema)>>,
   <<Property("_intent", CustomSchema), Property("path", PathSchema)>>,
   <<Property("_displayName", CustomSchema), Property("_intent", CustomSchema)>>}
RequiredLists ==
  {None, Some(<<>>), Some(<<"path">>), Some(<<"_intent", "path">>),
   Some(<<"_displayName", "path", "_displayName">>)}

\* tool definitions a request may carry
RewriteTools ==
  {Tool(Some(<<McpPrefix, "files">>), Some(InputSchema(Some(ps), r))) :
     ps \in PropertyMaps, r \in RequiredLists}
    \cup {Tool(n, None) : n \in ToolNames}
    \cup {Tool(n, Some(InputSchema(None, Some(<<"path">>)))) : n \in ToolNames}
    \cup {Tool(n, Some(InputSchema(Some(<<Property("path", PathSchema)>>), None))) :
            n \in ToolNames}

ToolLists(n) == UNION {[1..k -> {Some(t) : t \in RewriteTools}] : k \in 0..n}

RewriteBodies ==
  {BodyObject(NoTools, NoMessages), BodyObject(ToolsObject, NoMessages)}
    \cup {BodyObject(ToolsArray(l), NoMessages) : l \in ToolLists(MaxTools)}

InitRewrite ==
  /\ InitSseStore
  /\ NoStreams
  /\ NoFetch
  /\ NoOAuth
  /\ NoSessionTools
  /\ reqOriginal \in RewriteBodies
  /\ reqBody = reqOriginal
  /\ passes = 0

\* one more pass of addMetadataToAllTools over the body
ApplySchema ==
  /\ passes < MaxPasses
  /\ ~AddMetadataToAllTools(reqBody).threw
  /\ reqBody' = AddMetadataToAllTools(reqBody).value
  /\ passes' = passes + 1
  /\ UNCHANGED <<reqOriginal, storeVars, streamVars, histVars, fetchVars, oauthVars, toolVars>>

NextRewrite == ApplySchema

SpecRewrite == InitRewrite /\ [][NextRewrite]_vars

(***************************************************************************)
(* Repeated passes of injectMetadataIntoHistory over one message history,  *)
(* with a metadata store that no one writes meanwhile.                     *)
(***************************************************************************)
MaxMessages == 2

PathInput == <<Property("path", "a")>>

\* messages a history may hold
HistoryMessages ==
  {Message("user", ArrayContent(<<Block("tool_use", "t1", Some(PathInput))>>)),
   Message("assistant", StringContent),
   Message("assistant", ArrayContent(<<Block("tool_use", "t1", Some(PathInput))>>)),
   Message("assistant", ArrayContent(<<Block("text", "t1", Some(PathInput)),
                                       Block("tool_use", "t2", Some(<<>>))>>)),
   Message("assistant",
           ArrayContent(<<Block("tool_use", "t1",
                                Some(PathInput \o <<Property("_intent", "old")>>))>>)),
   Message("assistant",
           ArrayContent(<<Block("tool_use", "t1", Some(<<Property("_displayName", "old")>>)),
                          Block("tool_use", "t1", Some(PathInput))>>)),
   Message("assistant", ArrayContent(<<Block("tool_use", "", Some(PathInput)),
                                       Block("tool_use", "t1", None)>>))}

HistoryBodies ==
  {BodyObject(NoTools, NoMessages)}
    \cup {BodyObject(NoTools, MessagesArray(l)) :
            l \in UNION {[1..k -> {Some(msg) : msg \in HistoryMessages}] : k \in 0..MaxMessages}}

InjectMaps ==
  {EmptyMap} \cup {[k \in {id} |-> m] : id \in ToolUseIds, m \in Metas}

InitInject ==
  /\ files \in {[d \in Dirs |-> IF d = "A" THEN f ELSE NoFile] :
                  f \in {NoFile} \cup {FileOf(map) : map \in InjectMaps}}
  /\ sessionDir = [p \in Procs |-> IF p = SseProc THEN "A" ELSE NoDir]
  /\ metadataMap \in {[p \in Procs |-> IF p = SseProc THEN map ELSE EmptyMap] :
                        map \in InjectMaps}
  /\ fileCache = [p \in Procs |-> NullCache]
  /\ observed = [p \in Procs |-> EmptyMap]
  /\ stored = [d \in Dirs \cup {NoDir} |-> {}]
  /\ calls = 0
  /\ last = Call("init", "p1", "t1", <<>>, 0)
  /\ NoStreams
  /\ NoFetch
  /\ NoOAuth
  /\ NoSessionTools
  /\ reqOriginal \in HistoryBodies
  /\ reqBody = reqOriginal
  /\ passes = 0

\* one more pass of injectMetadataIntoHistory over the body
ApplyInject ==
  /\ passes < MaxPasses
  /\ ~InjectMetadataIntoHistory(reqBody, files, StoreOf(SseProc)).threw
  /\ reqBody' = InjectMetadataIntoHistory(reqBody, files, StoreOf(SseProc)).value
  /\ passes' = passes + 1
  /\ UNCHANGED <<reqOriginal, storeVars, streamVars, histVars, fetchVars, oauthVars, toolVars>>

NextInject == ApplyInject

SpecInject == InitInject /\ [][NextInject]_vars

(***************************************************************************)
(* A response is stripped by the transform; the next request carries the  *)
(* tool calls the reader of the stripped response saw, and re-injection    *)
(* runs in the process that stripped them or in a process started later.   *)
(***************************************************************************)
\* an enqueued chunk read back as an SSE event
ChunkEvent(chunk) ==
  IF Len(chunk) >= 8 /\ chunk[1] = EventPrefix /\ chunk[4] = NL /\ chunk[5] = DataPrefix
  THEN [eventType |-> <<chunk[3]>>, data |-> SubSeq(chunk, 7, Len(chunk) - 2)]
  ELSE [eventType |-> <<>>, data |-> <<>>]

ChunkEvents(out) == [i \in 1..Len(out) |-> ChunkEvent(out[i])]

\* the last tool_use block at index that the events evs start, fill with a
\* JSON object and stop: its id and its input text; text <<>> when none
RECURSIVE ParsedEvents(_)
ParsedEvents(evs) ==
  IF evs = <<>> THEN <<>>
  ELSE Append(ParsedEvents(SubSeq(evs, 1, Len(evs) - 1)),
              [eventType |-> evs[Len(evs)].eventType,
               parsed |-> JsonParseData(evs[Len(evs)].data)])

RECURSIVE LastBlock(_, _)
LastBlock(evs, index) ==
  IF evs = <<>> THEN [id |-> Undefined, text |-> <<>>]
  ELSE LET before == SubSeq(evs, 1, Len(evs) - 1)
           atIndex == {n \in 1..Len(evs) : evs[n].parsed.ok /\ evs[n].parsed.index = index}
           starts == {n \in atIndex : /\ n < Len(evs)
                                      /\ evs[n].eventType = ContentBlockStart
                                      /\ evs[n].parsed.content_block.type = "tool_use"}
           from == IF starts = {} THEN 0 ELSE CHOOSE n \in starts : \A k \in starts : k <= n
           stops == {n \in atIndex : evs[n].eventType = ContentBlockStop}
           deltas == SelectSeq([n \in 1..Len(before) |-> n],
                               LAMBDA n : /\ n > from
                                          /\ n \in atIndex
                                          /\ evs[n].eventType = ContentBlockDelta
                                          /\ evs[n].parsed.delta.type = "input_json_delta")
           text == Concat([k \in 1..Len(deltas) |-> evs[deltas[k]].parsed.delta.partial_json])
       IN IF /\ Len(evs) \in stops
             /\ from > 0
             /\ stops \cap ((from + 1)..Len(before)) = {}
             /\ IsJsonObject(text)
          THEN [id |-> evs[from].parsed.content_block.id, text |-> text]
          ELSE LastBlock(before, index)

\* the properties of an object text
InputOf(text) ==
  LET obj == JsonParseObject(text)
  IN [j \in 1..Len(obj) |-> Property(KvKey(obj[j]), KvValue(obj[j]))]

HistoryIndexes == <<"0", "1">>

\* the history of the next request: one assistant message with the tool
\* calls read from the stripped response
StrippedHistory(out) ==
  LET evs == ParsedEvents(ChunkEvents(out))
      blocks == [k \in 1..Len(HistoryIndexes) |-> LastBlock(evs, HistoryIndexes[k])]
      present == SelectSeq(blocks, LAMBDA block : block.text # <<>>)
  IN BodyObject(NoTools,
       MessagesArray(<<Some(Message("assistant",
         ArrayContent([k \in 1..Len(present) |->
           Block("tool_use", present[k].id, Some(InputOf(present[k].text)))])))>>))

RoundTripCatalogue ==
  {Start0, Delta0Open, Delta0Meta, Delta0Whole, Stop0, Start1, Delta1Whole, Delta1Number, Stop1}

\* the process that strips and a process started later share the directory
InitRoundTrip ==
  /\ files = [d \in Dirs |-> NoFile]
  /\ sessionDir = [p \in Procs |-> "A"]
  /\ metadataMap = [p \in Procs |-> EmptyMap]
  /\ fileCache = [p \in Procs |-> NullCache]
  /\ observed = [p \in Procs |-> EmptyMap]
  /\ stored = [d \in Dirs \cup {NoDir} |-> {}]
  /\ calls = 0
  /\ last = Call("init", "p1", "t1", <<>>, 0)
  /\ NoStreams
  /\ NoCalls

\* injectMetadataIntoHistory in process p over the history of the response
InjectHistory(p) ==
  LET body == StrippedHistory(xf[StrippingStreamOf("s1")].out)
      injected == InjectMetadataIntoHistory(body, files, StoreOf(p))
  IN /\ phase["s1"] = "closed"
     /\ passes < MaxPasses
     /\ reqOriginal' = body
     /\ reqBody' = injected.value
     /\ passes' = passes + 1
     /\ last' = Call("inject", p, "t1", <<>>, injected.reads)
     /\ UNCHANGED <<storeVars, streamVars, calls, observed, stored, fetchVars, oauthVars, toolVars>>

NextRoundTrip ==
  \/ \E e \in RoundTripCatalogue :
       Len(events["s1"]) < MaxEvents /\ Receive("s1", e, 0)
  \/ Flush("s1", 0)
  \/ \E p \in Procs : InjectHistory(p)

SpecRoundTrip == InitRoundTrip /\ [][NextRoundTrip]_vars

(***************************************************************************)
(* Calls through the intercepted fetch                                     *)
(***************************************************************************)
MaxTicks == 3

EnvValues == {None, Some(<<SP>>), Some(<<SP>> \o CustomBaseUrl)}

MessagesUrl == DefaultBaseUrl \o <<"/v1", "/messages">>
CustomMessagesUrl == CustomBaseUrl \o <<"/v1", "/messages">>
ModelsUrl == DefaultBaseUrl \o <<"/v1", "/models">>
FetchInputs ==
  {Input("string", u) : u \in {MessagesUrl, CustomMessagesUrl, ModelsUrl}}
    \cup {Input("Request", MessagesUrl)}

\* a request with an MCP tool to augment and a tool call in its history
HistoryBody ==
  BodyObject(
    ToolsArray(<<Some(Tool(Some(<<McpPrefix, "files">>),
                           Some(InputSchema(Some(<<Property("path", PathSchema)>>), None))))>>),
    MessagesArray(<<Some(Message("assistant",
                     ArrayContent(<<Block("tool_use", "t1",
                                          Some(<<Property("path", "a")>>))>>)))>>))
HistoryText == BodyText(TRUE, TRUE, HistoryBody)
FetchTexts ==
  {InvalidText,
   BodyText(TRUE, TRUE, JsonNull),
   BodyText(TRUE, FALSE, BodyObject(NoTools, NoMessages)),
   HistoryText,
   BodyText(TRUE, TRUE, BodyObject(ToolsArray(<<None>>), NoMessages))}
FetchInits ==
  {None, Some(RequestInit(None, StringBody(HistoryText))),
   Some(RequestInit(Some("GET"), NoBody)),
   Some(RequestInit(Some("post"), StringBody(HistoryText))),
   Some(RequestInit(Some("POST"), NoBody)),
   Some(RequestInit(Some("POST"), EmptyBody)),
   Some(RequestInit(Some("POST"), BytesBody))}
    \cup {Some(RequestInit(Some("POST"), StringBody(t))) : t \in FetchTexts}

\* responses of the network
SseContent == Content("event: ping", FALSE, FALSE, None, None)
NestedContent == Content("{error:{message:E1},message:E2}", TRUE, FALSE, Some("E1"), Some("E2"))
TopContent == Content("{message:E2}", TRUE, FALSE, None, Some("E2"))
OtherContent == Content("{detail:E3}", TRUE, FALSE, None, None)
NullContent == Content("null", TRUE, TRUE, None, None)
TextContent == Content("upstream down", FALSE, FALSE, None, None)
EmptyContent == Content("", FALSE, FALSE, None, None)
EventStream == <<"text/event-stream">>
FetchResponses ==
  {Response(200, "OK", EventStream, TRUE, SseContent, TRUE),
   Response(200, "OK", EventStream \o <<"; charset=utf-8">>, TRUE, SseContent, TRUE),
   Response(200, "OK", <<"application/json">>, TRUE, OtherContent, TRUE),
   Response(200, "OK", EventStream, FALSE, NoContent, TRUE),
   Response(200, "OK", <<>>, TRUE, OtherContent, TRUE),
   Response(400, "Bad Request", <<"application/json">>, TRUE, NestedContent, TRUE),
   Response(400, "Bad Request", <<"application/json">>, TRUE, TopContent, TRUE),
   Response(400, "Bad Request", <<"application/json">>, TRUE, OtherContent, TRUE),
   Response(400, "Bad Request", <<"application/json">>, TRUE, NullContent, TRUE),
   Response(500, "Internal Server Error", <<"text/plain">>, TRUE, TextContent, TRUE),
   Response(500, "Internal Server Error", <<"text/plain">>, TRUE, EmptyContent, TRUE),
   Response(500, "Internal Server Error", <<"text/plain">>, TRUE, TextContent, FALSE),
   Response(529, "", EventStream, TRUE, SseContent, TRUE)}

\* the SDK subprocess resuming a session whose file holds the metadata of t1
InitFetch ==
  /\ files = [d \in Dirs |-> IF d = "A"
                             THEN FileOf([k \in {"t1"} |-> ToolMetadata("x", "y", 0)])
                             ELSE NoFile]
  /\ sessionDir = [p \in Procs |-> IF p = SseProc THEN "A" ELSE NoDir]
  /\ metadataMap = [p \in Procs |-> EmptyMap]
  /\ fileCache = [p \in Procs |-> NullCache]
  /\ observed = [p \in Procs |-> EmptyMap]
  /\ stored = [d \in Dirs \cup {NoDir} |-> {}]
  /\ calls = 0
  /\ last = Call("init", "p1", "t1", <<>>, 0)
  /\ NoStreams
  /\ NoRewrite
  /\ NoFetch
  /\ NoOAuth
  /\ NoSessionTools

\* interceptedFetch(input, init) up to its first await of originalFetch
FetchCall(input, init) ==
  LET url == UrlOf(input)
      matched == IsApiMessagesUrl(url, env)
      routed == /\ matched
                /\ init # None
                /\ init[1].method # None
                /\ ToUpperCase(init[1].method[1]) = "POST"
                /\ init[1].body.kind \in {"string", "bytes"}
      rw == RewriteBody(init[1].body.text, files, StoreOf(SseProc))
      rewritten == routed /\ init[1].body.kind = "string" /\ ~rw.threw
      reads == IF routed /\ init[1].body.kind = "string" THEN rw.reads ELSE 0
  IN /\ flight.stage = "idle"
     /\ IF rewritten
        THEN /\ requests' = <<Request(Input("string", url),
                                      Some(RequestInit(init[1].method, StringBody(rw.text))))>>
             /\ flight' = Pending("rewritten", input, init, matched, reads)
        ELSE /\ requests' = <<Request(input, init)>>
             /\ flight' = Pending("plain", input, init, matched, reads)
     /\ outcome' = NoOutcome
     /\ UNCHANGED <<env, errorFile, clock, storeVars, streamVars, histVars, rewriteVars, oauthVars, toolVars>>

\* the pending originalFetch rejects: inside the try block the exception is
\* caught and the original request is issued; otherwise the call rejects
NetworkError ==
  /\ flight.stage \in {"rewritten", "plain"}
  /\ IF flight.stage = "rewritten"
     THEN /\ requests' = Append(requests, Request(flight.input, flight.init))
          /\ flight' = [flight EXCEPT !.stage = "plain"]
          /\ UNCHANGED outcome
     ELSE /\ requests' = <<>>
          /\ flight' = Idle
          /\ outcome' = Rejected(flight.stage, flight.matched)
  /\ UNCHANGED <<env, errorFile, clock, storeVars, streamVars, histVars, rewriteVars, oauthVars, toolVars>>

\* the pending originalFetch resolves: stripMetadataFromResponse inside the
\* try block, then logResponse
Respond(received) ==
  /\ flight.stage \in {"rewritten", "plain"}
  /\ LET response == IF flight.stage = "rewritten"
                     THEN StripMetadataFromResponse(received) ELSE received
         logged == LogResponse(response, UrlOf(flight.input), env, clock, errorFile)
     IN /\ outcome' = Resolved(logged.response, received, flight.stage, flight.matched)
        /\ errorFile' = logged.efile
  /\ flight' = Idle
  /\ requests' = <<>>
  /\ UNCHANGED <<env, clock, storeVars, streamVars, histVars, rewriteVars, oauthVars, toolVars>>

\* the host switches provider: process.env.ANTHROPIC_BASE_URL is set or deleted
SetEnv(value) ==
  /\ value # env
  /\ env' = value
  /\ UNCHANGED <<errorFile, clock, flight, requests, outcome,
                 storeVars, streamVars, histVars, rewriteVars, oauthVars, toolVars>>

\* writes of api-error.json start or stop failing
ErrorFileFault(writable) ==
  /\ writable # errorFile.writable
  /\ errorFile' = [errorFile EXCEPT !.writable = writable]
  /\ UNCHANGED <<env, clock, flight, requests, outcome,
                 storeVars, streamVars, histVars, rewriteVars, oauthVars, toolVars>>

\* time passes: half a staleness window
Tick ==
  /\ clock < MaxTicks * (MAX_ERROR_AGE_MS \div 2)
  /\ clock' = clock + MAX_ERROR_AGE_MS \div 2
  /\ UNCHANGED <<env, errorFile, flight, requests, outcome,
                 storeVars, streamVars, histVars, rewriteVars, oauthVars, toolVars>>

\* a call of getLastApiError()
PopLastApiError ==
  LET r == GetLastApiError(errorFile, clock)
  IN /\ outcome' = Popped(r.ret)
     /\ errorFile' = r.efile
     /\ UNCHANGED <<env, clock, flight, requests,
                    storeVars, streamVars, histVars, rewriteVars, oauthVars, toolVars>>

NextFetch ==
  \/ \E input \in FetchInputs, init \in FetchInits : FetchCall(input, init)
  \/ NetworkError
  \/ \E received \in FetchResponses : Respond(received)
  \/ \E value \in EnvValues : SetEnv(value)
  \/ \E writable \in BOOLEAN : ErrorFileFault(writable)

SpecFetch == InitFetch /\ [][NextFetch]_vars

\* error capture and retrieval over time: calls to the messages endpoint
ErrorResponses == {r \in FetchResponses : r.content \in {NestedContent, TextContent}}

NextError ==
  \/ FetchCall(Input("string", MessagesUrl), Some(RequestInit(Some("POST"), StringBody(HistoryText))))
  \/ \E received \in ErrorResponses : Respond(received)
  \/ Tick
  \/ PopLastApiError

SpecError == InitFetch /\ [][NextError]_vars

(***************************************************************************)
(* One OAuth flow: authenticate() of a CraftOAuth object, its callback     *)
(* server and timer, the browser and the provider.                         *)
(***************************************************************************)
MaxOccupied == 2
MaxRequests == 2

otherVars == <<storeVars, streamVars, histVars, rewriteVars, fetchVars, toolVars>>

\* what discovery can give authenticate(): nothing, or metadata without a
\* registration endpoint, with an empty one, or with one
MetadataResults ==
  {None, Some(OAuthMetadata(None)), Some(OAuthMetadata(Some(""))),
   Some(OAuthMetadata(Some("https://as.example/register")))}

\* the queries a callback request may carry
Queries ==
  {Query(c, st, e) : c \in {None, Some(""), Some("code-1")},
                     st \in {None, Some(ExpectedState), Some("state-2")},
                     e \in {None, Some("access_denied")}}

RequestPaths == {CALLBACK_PATH, "/favicon.ico"}

\* the answers of the token endpoint
TokenResponses ==
  {TokenResponse(400, "invalid_grant", Undefined, Undefined, None, Undefined),
   TokenResponse(500, "server_error", Undefined, Undefined, None, Undefined),
   TokenResponse(200, "", "access-1", Undefined, None, Undefined),
   TokenResponse(200, "", "access-1", "refresh-2", Some(3600), "Bearer")}

\* ports START..START+n-1 are held by other programs, or the whole range is
InitOAuth ==
  /\ InitSseStore
  /\ NoStreams
  /\ NoRewrite
  /\ NoFetch
  /\ NoSessionTools
  /\ auth = Auth("idle", None, CALLBACK_PORT_START, "", <<>>)
  /\ server = None
  /\ listening = {}
  /\ closed = {}
  /\ inUse \in {CALLBACK_PORT_START..(CALLBACK_PORT_START + n - 1) : n \in 0..MaxOccupied}
                 \cup {Ports}
  /\ timeout = "unset"
  /\ codePromise = CodePending
  /\ keepAlive = FALSE
  /\ handled = NoRequest
  /\ statuses = <<>>
  /\ wire = <<>>
  /\ cancelled = FALSE
  /\ discovery = NoDiscovery

\* authenticate() up to its await of getServerMetadata()
Authenticate ==
  /\ auth.pc = "idle"
  /\ auth' = [auth EXCEPT !.pc = "metadata"]
  /\ statuses' = Append(statuses, <<"Fetching OAuth server configuration...">>)
  /\ UNCHANGED <<server, listening, closed, inUse, timeout, codePromise, keepAlive, handled, wire,
                 cancelled, discovery, otherVars>>

\* getServerMetadata() settles: authenticate() throws, or goes on into
\* startCallbackServer() up to the listen of the first candidate
MetadataResult(found) ==
  /\ auth.pc = "metadata"
  /\ IF found = None
     THEN /\ auth' = [auth EXCEPT !.pc = "thrown", !.error = <<"No OAuth metadata found">>]
          /\ statuses' = Append(statuses, <<"Failed to get OAuth metadata: ",
                                            "No OAuth metadata found">>)
          /\ UNCHANGED <<timeout, codePromise>>
     ELSE /\ auth' = [auth EXCEPT !.pc = "binding", !.metadata = found,
                                  !.port = CALLBACK_PORT_START]
          /\ statuses' = statuses \o <<<<"Found OAuth endpoints">>,
                                       <<"Generated PKCE challenge and state">>,
                                       <<"Starting callback server...">>>>
          /\ timeout' = "pending"
          /\ codePromise' = CodePending
  /\ UNCHANGED <<server, listening, closed, inUse, keepAlive, handled, wire, cancelled, discovery, otherVars>>

\* steps 5-6 of authenticate(): the authorization URL is built and openUrl called
OpenBrowser(clientId, port, said, srv) ==
  /\ auth' = [auth EXCEPT !.pc = "opening", !.clientId = clientId]
  /\ statuses' = said \o <<<<"Opening browser for authorization...">>>>
  /\ wire' = Append(wire, AuthorizationUrl(clientId, port, ExpectedState))
  /\ server' = srv

\* the listen of the candidate on auth.port settles. Bound: the server is
\* kept and authenticate() goes on to its next await (registration or
\* openUrl). Not bound: the candidate is closed, and the next port is tried
\* or startCallbackServer() throws.
BindResult(err) ==
  /\ auth.pc = "binding"
  /\ (auth.port \in inUse) <=> (err = "EADDRINUSE")
  /\ IF err = "none"
     THEN LET said == Append(statuses, <<"Callback server listening on port ", auth.port>>)
              registration == auth.metadata[1].registration_endpoint
          IN /\ listening' = listening \cup {auth.port}
             /\ IF registration # None /\ registration[1] # ""
                THEN /\ auth' = [auth EXCEPT !.pc = "registering"]
                     /\ statuses' = Append(said, <<"Registering client at ", registration[1]>>)
                     /\ wire' = Append(wire, RegistrationRequest(auth.port))
                     /\ server' = Some(auth.port)
                ELSE OpenBrowser("craft-agent", auth.port,
                                 Append(said, <<"Using default client ID: ", "craft-agent">>),
                                 Some(auth.port))
             /\ UNCHANGED <<closed, timeout>>
     ELSE /\ closed' = closed \cup {auth.port}
          /\ IF IsAddressInUse(err) /\ auth.port < CALLBACK_PORT_END
             THEN /\ auth' = [auth EXCEPT !.port = auth.port + 1]
                  /\ UNCHANGED <<timeout, statuses>>
             ELSE /\ timeout' = ClearTimeout(timeout)
                  /\ auth' = [auth EXCEPT !.pc = "thrown",
                                !.error = IF IsAddressInUse(err)
                                          THEN <<"All OAuth callback ports are in use">>
                                          ELSE <<err>>]
                  /\ statuses' = Append(statuses,
                                   <<"Failed to start callback server: ",
                                     IF IsAddressInUse(err)
                                     THEN "All OAuth callback ports are in use" ELSE err>>)
          /\ UNCHANGED <<server, listening, wire>>
  /\ UNCHANGED <<inUse, codePromise, keepAlive, handled, cancelled, discovery, otherVars>>

\* registerClient() settles
RegisterResult(ok) ==
  /\ auth.pc = "registering"
  /\ IF ok
     THEN /\ OpenBrowser("client-1", auth.port,
                         Append(statuses, <<"Registered as client: ", "client-1">>), server)
          /\ UNCHANGED listening
     ELSE /\ server' = StopServer(server, listening).server
          /\ listening' = StopServer(server, listening).listening
          /\ auth' = [auth EXCEPT !.pc = "thrown",
                        !.error = <<"Failed to register OAuth client: ", "error text">>]
          /\ statuses' = Append(statuses, <<"Client registration failed: ",
                                            "Failed to register OAuth client: ", "error text">>)
          /\ UNCHANGED wire
  /\ UNCHANGED <<closed, inUse, timeout, codePromise, keepAlive, handled, cancelled, discovery, otherVars>>

\* openUrl() settles
OpenResult(ok) ==
  /\ auth.pc = "opening"
  /\ IF ok
     THEN /\ auth' = [auth EXCEPT !.pc = "waiting"]
          /\ statuses' = Append(statuses, <<"Waiting for you to authorize in browser...">>)
     ELSE /\ auth' = [auth EXCEPT !.pc = "thrown", !.error = <<"openUrl failed">>]
          /\ UNCHANGED statuses
  /\ UNCHANGED <<server, listening, closed, inUse, timeout, codePromise, keepAlive, handled, wire,
                 cancelled, discovery, otherVars>>

\* await codePromise goes on once the promise is settled
CodeSettled ==
  /\ auth.pc = "waiting"
  /\ codePromise.state # "pending"
  /\ IF codePromise.state = "resolved"
     THEN /\ auth' = [auth EXCEPT !.pc = "exchanging"]
          /\ statuses' = statuses \o <<<<"Authorization code received!">>,
                                       <<"Exchanging authorization code for tokens...">>>>
          /\ wire' = Append(wire, TokenRequest(codePromise.code, auth.clientId, auth.port))
     ELSE /\ auth' = [auth EXCEPT !.pc = "thrown", !.error = codePromise.error]
          /\ UNCHANGED <<statuses, wire>>
  /\ UNCHANGED <<server, listening, closed, inUse, timeout, codePromise, keepAlive, handled,
                 cancelled, discovery, otherVars>>

\* the token endpoint answers and exchangeCodeForTokens() settles
ExchangeResult(response) ==
  /\ auth.pc = "exchanging"
  /\ IF ExchangeCodeForTokens(response, clock).threw
     THEN /\ auth' = [auth EXCEPT !.pc = "thrown",
                        !.error = ExchangeCodeForTokens(response, clock).error]
          /\ UNCHANGED statuses
     ELSE /\ auth' = [auth EXCEPT !.pc = "returned"]
          /\ statuses' = Append(statuses, <<"Tokens received successfully!">>)
  /\ UNCHANGED <<server, listening, closed, inUse, timeout, codePromise, keepAlive, handled, wire,
                 cancelled, discovery, otherVars>>

\* a request reaches the callback server, over a new connection while it
\* listens or over a connection that was accepted before it was closed
HandleRequest(path, query) ==
  /\ listening # {} \/ keepAlive
  /\ handled.n < MaxRequests
  /\ keepAlive' = TRUE
  /\ IF path = CALLBACK_PATH
     THEN /\ timeout' = ClearTimeout(timeout)
          /\ server' = StopServer(server, listening).server
          /\ listening' = StopServer(server, listening).listening
          /\ codePromise' = HandleCallback(query, ExpectedState, codePromise).promise
          /\ handled' = Handled(handled.n + 1, path, query,
                                HandleCallback(query, ExpectedState, codePromise).status)
     ELSE /\ handled' = Handled(handled.n + 1, path, query, 404)
          /\ UNCHANGED <<timeout, server, listening, codePromise>>
  /\ UNCHANGED <<auth, closed, inUse, statuses, wire, cancelled, discovery, otherVars>>

\* the callback of setTimeout runs
TimeoutFires ==
  /\ timeout = "pending"
  /\ timeout' = "fired"
  /\ server' = StopServer(server, listening).server
  /\ listening' = StopServer(server, listening).listening
  /\ codePromise' = RejectCode(codePromise, <<"OAuth timeout - no callback received">>)
  /\ UNCHANGED <<auth, closed, inUse, keepAlive, handled, statuses, wire, cancelled, discovery, otherVars>>

\* this.server emits 'error' after it was bound
ServerError ==
  /\ server # None
  /\ timeout' = ClearTimeout(timeout)
  /\ codePromise' = RejectCode(codePromise, <<"Callback server error: ", "error text">>)
  /\ UNCHANGED <<auth, server, listening, closed, inUse, keepAlive, handled, statuses, wire,
                 cancelled, discovery, otherVars>>

\* cancel(), at most once
Cancel ==
  /\ ~cancelled
  /\ cancelled' = TRUE
  /\ server' = StopServer(server, listening).server
  /\ listening' = StopServer(server, listening).listening
  /\ UNCHANGED <<auth, closed, inUse, timeout, codePromise, keepAlive, handled, statuses, wire,
                 discovery, otherVars>>

NextOAuth ==
  \/ Authenticate
  \/ \E found \in MetadataResults : MetadataResult(found)
  \/ \E err \in {"none", "EADDRINUSE", "EACCES"} : BindResult(err)
  \/ \E ok \in BOOLEAN : RegisterResult(ok)
  \/ \E ok \in BOOLEAN : OpenResult(ok)
  \/ CodeSettled
  \/ \E response \in TokenResponses : ExchangeResult(response)
  \/ \E path \in RequestPaths, query \in Queries : HandleRequest(path, query)
  \/ TimeoutFires
  \/ ServerError
  \/ Cancel

SpecOAuth == InitOAuth /\ [][NextOAuth]_vars

\* any set of ports of the range is held by other programs
InitBind ==
  /\ InitSseStore
  /\ NoStreams
  /\ NoRewrite
  /\ NoFetch
  /\ NoSessionTools
  /\ auth = Auth("idle", None, CALLBACK_PORT_START, "", <<>>)
  /\ server = None
  /\ listening = {}
  /\ closed = {}
  /\ inUse \in SUBSET Ports
  /\ timeout = "unset"
  /\ codePromise = CodePending
  /\ keepAlive = FALSE
  /\ handled = NoRequest
  /\ statuses = <<>>
  /\ wire = <<>>
  /\ cancelled = FALSE
  /\ discovery = NoDiscovery

\* authenticate() from its call to the return of startCallbackServer()
NextBind ==
  \/ Authenticate
  \/ \E found \in MetadataResults : MetadataResult(found)
  \/ \E err \in {"none", "EADDRINUSE", "EACCES"} : BindResult(err)

SpecBind == InitBind /\ [][NextBind]_vars

\* a flow that no callback request reaches; a pending timer fires
NextTimeout ==
  \/ Authenticate
  \/ \E found \in MetadataResults : MetadataResult(found)
  \/ \E err \in {"none", "EADDRINUSE", "EACCES"} : BindResult(err)
  \/ \E ok \in BOOLEAN : RegisterResult(ok)
  \/ \E ok \in BOOLEAN : OpenResult(ok)
  \/ CodeSettled
  \/ \E query \in Queries : HandleRequest("/favicon.ico", query)
  \/ TimeoutFires
  \/ ServerError
  \/ Cancel

\* a pending timer fires, and an await goes on once its promise is settled
SpecTimeout ==
  InitOAuth /\ [][NextTimeout]_vars /\ WF_vars(TimeoutFires) /\ WF_vars(CodeSettled)

(***************************************************************************)
(* Metadata discovery and its callers: checkAuthRequired(), authenticate() *)
(* and refreshAccessToken()                                                *)
(***************************************************************************)
McpUrls == {<<"https://mcp.example">>, <<"https://mcp.example", "/v1/mcp">>, <<"not-a-valid-url">>}

\* the answers of a metadata URL
MetadataResponses ==
  {FetchRejected,
   MetadataResponse(404, FALSE, Undefined, Undefined, None),
   MetadataResponse(200, FALSE, Undefined, Undefined, None),
   MetadataResponse(200, TRUE, "https://as.example/authorize", Undefined, None),
   MetadataResponse(200, TRUE, "https://as.example/authorize", "", None),
   MetadataResponse(200, TRUE, "https://as.example/authorize", "https://as.example/token", None),
   MetadataResponse(200, TRUE, "https://as.example/authorize", "https://as.example/token",
                    Some("https://as.example/register"))}

Callers == {"checkAuthRequired", "authenticate", "refreshAccessToken"}

InitDiscover ==
  /\ InitSseStore
  /\ NoStreams
  /\ NoCalls

\* the caller enters discoverOAuthMetadata(mcpUrl), which runs up to the
\* fetch of its first candidate, or returns null for an invalid URL
StartDiscovery(caller, mcpUrl) ==
  /\ discovery.caller = "none"
  /\ caller = "authenticate" <=> auth.pc = "metadata"
  /\ LET url == ParseUrl(mcpUrl)
         said == IF caller = "checkAuthRequired"
                 THEN Append(statuses, <<"Checking if authentication is required...">>)
                 ELSE statuses
     IN IF url.valid
        THEN /\ discovery' = Discovery(caller, mcpUrl, "fetching", 1, <<>>, None, <<>>)
             /\ statuses' = said \o <<<<"Discovering OAuth metadata for ">> \o mcpUrl,
                                      <<"  Trying: ">> \o Candidates(url)[1]>>
        ELSE /\ discovery' = Discovery(caller, mcpUrl, "done", 1, <<>>, None, <<>>)
             /\ statuses' = Append(said, <<"Invalid MCP URL: ">> \o mcpUrl)
  /\ UNCHANGED <<auth, server, listening, closed, inUse, timeout, codePromise, keepAlive, handled,
                 wire, cancelled, otherVars>>

\* the fetch of the candidate settles: tryFetchMetadata returns, and the loop
\* of discoverOAuthMetadata returns the metadata, tries the next candidate
\* up to its fetch, or ends with null
FetchResult(response) ==
  /\ discovery.pc = "fetching"
  /\ LET candidates == Candidates(ParseUrl(discovery.mcpUrl))
         found == TryFetchMetadata(response)
         fetched == Append(discovery.fetched,
                           [url |-> candidates[discovery.next], response |-> response])
         said == Append(statuses, TryFetchLog(response, candidates[discovery.next]))
     IN IF found # None
        THEN /\ discovery' = [discovery EXCEPT !.pc = "done", !.fetched = fetched,
                                               !.result = found]
             /\ statuses' = said
        ELSE IF discovery.next < Len(candidates)
        THEN /\ discovery' = [discovery EXCEPT !.next = discovery.next + 1,
                                               !.fetched = fetched]
             /\ statuses' = Append(said, <<"  Trying: ">> \o candidates[discovery.next + 1])
        ELSE /\ discovery' = [discovery EXCEPT !.pc = "done", !.fetched = fetched]
             /\ statuses' = Append(said, <<"No OAuth metadata found for ">> \o discovery.mcpUrl)
  /\ UNCHANGED <<auth, server, listening, closed, inUse, timeout, codePromise, keepAlive, handled,
                 wire, cancelled, otherVars>>

\* checkAuthRequired() goes on after discoverOAuthMetadata and returns
CheckAuthReturns ==
  /\ discovery.caller = "checkAuthRequired"
  /\ discovery.pc = "done"
  /\ discovery' = [discovery EXCEPT !.pc = "settled",
                                    !.outcome = ReturnedValue(discovery.result # None)]
  /\ statuses' = Append(statuses,
                        IF discovery.result # None
                        THEN <<"OAuth required - server has OAuth metadata">>
                        ELSE <<"No OAuth metadata found - server may be public">>)
  /\ UNCHANGED <<auth, server, listening, closed, inUse, timeout, codePromise, keepAlive, handled,
                 wire, cancelled, otherVars>>

\* authenticate() goes on after getServerMetadata()
AuthenticateMetadata ==
  /\ discovery.caller = "authenticate"
  /\ discovery.pc = "done"
  /\ MetadataResult(discovery.result)

\* refreshAccessToken() goes on after getServerMetadata(): it throws, or
\* posts the refresh grant to the token endpoint
RefreshMetadata ==
  /\ discovery.caller = "refreshAccessToken"
  /\ discovery.pc = "done"
  /\ discovery' =
       IF discovery.result = None
       THEN [discovery EXCEPT !.pc = "settled",
                              !.outcome = ThrownError(<<"No OAuth metadata found">>)]
       ELSE [discovery EXCEPT !.pc = "refreshing"]
  /\ UNCHANGED <<auth, server, listening, closed, inUse, timeout, codePromise, keepAlive, handled,
                 statuses, wire, cancelled, otherVars>>

\* the token endpoint answers the refresh grant
RefreshResult(response) ==
  /\ discovery.pc = "refreshing"
  /\ discovery' = [discovery EXCEPT !.pc = "settled",
                                    !.outcome = RefreshAccessToken(response, "refresh-1", clock)]
  /\ UNCHANGED <<auth, server, listening, closed, inUse, timeout, codePromise, keepAlive, handled,
                 statuses, wire, cancelled, otherVars>>

NextDiscover ==
  \/ Authenticate
  \/ \E caller \in Callers, mcpUrl \in McpUrls : StartDiscovery(caller, mcpUrl)
  \/ \E response \in MetadataResponses : FetchResult(response)
  \/ CheckAuthReturns
  \/ AuthenticateMetadata
  \/ RefreshMetadata
  \/ \E response \in TokenResponses : RefreshResult(response)

SpecDiscover == InitDiscover /\ [][NextDiscover]_vars

(***************************************************************************)
(* The cache of session-scoped tool servers (part_002:176-189, 356-467)    *)
(***************************************************************************)
MaxInstances == 4

SessionIds == {<<"session-1">>, <<"session-2">>}
WorkspaceRootPaths == {<<"/ws-a">>, <<"/ws-b">>}

\* `${sessionId}::${workspaceRootPath}`
CacheKey(sessionId, workspaceRootPath) == sessionId \o <<"::">> \o workspaceRootPath

\* Map.get on the cache: 0 (undefined) for a key the map does not hold
MapGet(map, key) == IF key \in DOMAIN map THEN map[key] ELSE 0

\* a call of a function of the cache, and what it returned: the server
\* instance (instances are numbered as createSdkMcpServer makes them) or 0
ToolCall(op, sessionId, workspaceRootPath, returned) ==
  [op |-> op, sessionId |-> sessionId, workspaceRootPath |-> workspaceRootPath,
   returned |-> returned]

InitTools == InitSseStore /\ NoStreams /\ NoCalls

\* getSessionScopedTools(sessionId, workspaceRootPath)
GetSessionScopedTools(sessionId, workspaceRootPath) ==
  LET cacheKey == CacheKey(sessionId, workspaceRootPath)
      cached == MapGet(sessionScopedToolsCache, cacheKey)
  IN /\ IF cached # 0
        THEN /\ toolCall' = ToolCall("get", sessionId, workspaceRootPath, cached)
             /\ UNCHANGED <<sessionScopedToolsCache, created>>
        ELSE /\ created < MaxInstances
             /\ created' = created + 1
             /\ sessionScopedToolsCache' = MapSet(sessionScopedToolsCache, cacheKey, created + 1)
             /\ toolCall' = ToolCall("get", sessionId, workspaceRootPath, created + 1)
     /\ UNCHANGED <<storeVars, streamVars, histVars, rewriteVars, fetchVars, oauthVars>>

\* cleanupSessionScopedTools(sessionId)
CleanupSessionScopedTools(sessionId) ==
  /\ sessionScopedToolsCache' = MapDelete(sessionScopedToolsCache, sessionId)
  /\ toolCall' = ToolCall("cleanup", sessionId, <<>>, 0)
  /\ UNCHANGED <<created, storeVars, streamVars, histVars, rewriteVars, fetchVars, oauthVars>>

NextTools ==
  \/ \E sessionId \in SessionIds, workspaceRootPath \in WorkspaceRootPaths :
       GetSessionScopedTools(sessionId, workspaceRootPath)
  \/ \E sessionId \in SessionIds : CleanupSessionScopedTools(sessionId)

SpecTools == InitTools /\ [][NextTools]_vars

(***************************************************************************)
(* Claims about the SSE transform, stated over the history of events       *)
(***************************************************************************)
\* the parser state of a new stream in the process of InitSseStore
InitialWorld ==
  World(NewStream, [d \in Dirs |-> NoFile],
        [dir |-> "A", map |-> EmptyMap, cache |-> NullCache])

IsTrackingStart(e, index) ==
  /\ e.eventType = ContentBlockStart
  /\ \E id \in ToolUseIds : e.data = DataStart(index, ToolUse(id))

IsStop(e, index) == e.eventType = ContentBlockStop /\ e.data = DataStop(index)

IsInputJsonDelta(e, index) ==
  /\ e.eventType = ContentBlockDelta
  /\ JsonParseData(e.data).ok
  /\ JsonParseData(e.data).index = index
  /\ JsonParseData(e.data).delta.type = "input_json_delta"

\* is the block at index tracked after the events evs
RECURSIVE Tracked(_, _)
Tracked(evs, index) ==
  IF evs = <<>> THEN FALSE
  ELSE LET e == evs[Len(evs)]
       IN IF IsTrackingStart(e, index) THEN TRUE
          ELSE IF IsStop(e, index) THEN FALSE
          ELSE Tracked(SubSeq(evs, 1, Len(evs) - 1), index)

\* the partial_json fragments the tracked block at index has received
RECURSIVE Fragments(_, _)
Fragments(evs, index) ==
  IF evs = <<>> THEN <<>>
  ELSE LET e == evs[Len(evs)]
           before == SubSeq(evs, 1, Len(evs) - 1)
       IN IF IsTrackingStart(e, index) THEN <<>>
          ELSE IF IsInputJsonDelta(e, index)
          THEN Append(Fragments(before, index), JsonParseData(e.data).delta.partial_json)
          ELSE Fragments(before, index)

\* the tool_use id of the tracked block at index
RECURSIVE TrackedId(_, _)
TrackedId(evs, index) ==
  LET e == evs[Len(evs)]
  IN IF IsTrackingStart(e, index)
     THEN CHOOSE id \in ToolUseIds : e.data = DataStart(index, ToolUse(id))
     ELSE TrackedId(SubSeq(evs, 1, Len(evs) - 1), index)

MetadataKeys == {"_intent", "_displayName"}

\* the object text without its _intent and _displayName pairs
CleanedText(text) ==
  <<"{">> \o SelectSeq(JsonParseObject(text), LAMBDA tok : KvKey(tok) \notin MetadataKeys)
    \o <<"}">>

SyntheticDelta(index, partialJson) ==
  StandardFraming(Event(ContentBlockDelta, DataDelta(index, "input_json_delta", partialJson)))

\* a chunk that spells an input_json_delta event for index
IsSyntheticDelta(chunk, index) ==
  /\ Len(chunk) >= Len(SyntheticDelta(index, <<>>))
  /\ chunk = SyntheticDelta(index, SubSeq(chunk, 11, Len(chunk) - 4))

\* the step in which stream s received one more event
Received(s) == events'[s] # events[s]
NewEvent(s) == events'[s][Len(events'[s])]
OutOf(s) == xf[StrippingStreamOf(s)].out

Suppressed(evs, e) == \E index \in IndexTokens : IsInputJsonDelta(e, index) /\ Tracked(evs, index)

\* C1 (as stated): no input_json_delta of a tracked block is emitted at delta
\* time, and the content_block_stop of a tracked block emits exactly one
\* synthetic input_json_delta for its index immediately before the stop
\* event, however many deltas the block received.
C1_Original ==
  [][\A s \in Streams : Received(s) =>
       LET e == NewEvent(s)
       IN /\ Suppressed(events[s], e) => OutOf(s)' = OutOf(s)
          /\ \A index \in IndexTokens :
               (IsStop(e, index) /\ Tracked(events[s], index)) =>
                 /\ Len(OutOf(s)') = Len(OutOf(s)) + 2
                 /\ SubSeq(OutOf(s)', 1, Len(OutOf(s))) = OutOf(s)
                 /\ IsSyntheticDelta(OutOf(s)'[Len(OutOf(s)) + 1], index)
                 /\ OutOf(s)'[Len(OutOf(s)) + 2] = StandardFraming(e)]_vars

\* C1 (amended): no input_json_delta of a tracked block is emitted at delta
\* time; the content_block_stop of a tracked block whose concatenated
\* partial_json is non-empty emits exactly one synthetic input_json_delta for
\* its index immediately before the stop event, and the stop of a tracked
\* block that received no delta or only empty fragments emits the stop alone.
C1_OneSyntheticDelta ==
  [][\A s \in Streams : Received(s) =>
       LET e == NewEvent(s)
       IN /\ Suppressed(events[s], e) => OutOf(s)' = OutOf(s)
          /\ \A index \in IndexTokens :
               (IsStop(e, index) /\ Tracked(events[s], index)) =>
                 IF Concat(Fragments(events[s], index)) # <<>>
                 THEN /\ Len(OutOf(s)') = Len(OutOf(s)) + 2
                      /\ SubSeq(OutOf(s)', 1, Len(OutOf(s))) = OutOf(s)
                      /\ IsSyntheticDelta(OutOf(s)'[Len(OutOf(s)) + 1], index)
                      /\ OutOf(s)'[Len(OutOf(s)) + 2] = StandardFraming(e)
                 ELSE OutOf(s)' = Append(OutOf(s), StandardFraming(e))]_vars

\* C1 witness: a tracked block with two deltas was stopped and the output
\* ends with its synthetic delta and the stop event
C1_Witness ==
  \E s \in Streams, index \in IndexTokens :
    /\ Len(events[s]) >= 4
    /\ IsStop(events[s][Len(events[s])], index)
    /\ Tracked(SubSeq(events[s], 1, Len(events[s]) - 1), index)
    /\ Len(Fragments(SubSeq(events[s], 1, Len(events[s]) - 1), index)) >= 2
    /\ Len(OutOf(s)) >= 2
    /\ IsSyntheticDelta(OutOf(s)[Len(OutOf(s)) - 1], index)
    /\ OutOf(s)[Len(OutOf(s))] = StandardFraming(events[s][Len(events[s])])

\* the string value of key in an object text, undefined when the key is
\* absent or its value is not a string
ExtractedString(text, key) ==
  IF \E i \in 2..(Len(text) - 1) : KvKey(text[i]) = key /\ KvIsString(text[i])
  THEN KvValue(text[CHOOSE i \in 2..(Len(text) - 1) : KvKey(text[i]) = key])
  ELSE Undefined

\* the store of the streaming process maps id to the extracted fields, in
\* memory and in the session file
StoredExtracted(id, text) ==
  \E ts \in Timestamps :
    LET m == ToolMetadata(ExtractedString(text, "_intent"),
                          ExtractedString(text, "_displayName"), ts)
    IN /\ id \in DOMAIN metadataMap'[SseProc]
       /\ metadataMap'[SseProc][id] = m
       /\ id \in DOMAIN files'[sessionDir[SseProc]].data
       /\ files'[sessionDir[SseProc]].data[id] = m

\* the stop of a tracked block emitted the delta with partialJson, then the stop
StopEmitted(s, index, partialJson) ==
  OutOf(s)' = OutOf(s) \o <<SyntheticDelta(index, partialJson), StandardFraming(NewEvent(s))>>

\* C2 (as stated): when the fragments of a stopped tracked block concatenate
\* to a JSON object, the synthetic delta carries the object without _intent
\* and _displayName and with every other pair unchanged, and the store maps
\* the block's id to the extracted values; when neither key is present with
\* a string value nothing is written to the store.
C2_Original ==
  [][\A s \in Streams, index \in IndexTokens :
       (Received(s) /\ IsStop(NewEvent(s), index) /\ Tracked(events[s], index)
          /\ IsJsonObject(Concat(Fragments(events[s], index)))) =>
         LET text == Concat(Fragments(events[s], index))
         IN /\ StopEmitted(s, index, CleanedText(text))
            /\ IF ExtractedString(text, "_intent") # Undefined
                    \/ ExtractedString(text, "_displayName") # Undefined
               THEN StoredExtracted(TrackedId(events[s], index), text)
               ELSE UNCHANGED storeVars]_vars

\* C2 (amended): when the fragments of a stopped tracked block concatenate to
\* a JSON object, the synthetic delta carries the object without _intent and
\* _displayName and with every other pair unchanged; when at least one of the
\* two is a non-empty string the store maps the block's id to the extracted
\* string values, otherwise (absent, empty or not a string) nothing is
\* written to the store.
C2_RoundTrip ==
  [][\A s \in Streams, index \in IndexTokens :
       (Received(s) /\ IsStop(NewEvent(s), index) /\ Tracked(events[s], index)
          /\ IsJsonObject(Concat(Fragments(events[s], index)))) =>
         LET text == Concat(Fragments(events[s], index))
         IN /\ StopEmitted(s, index, CleanedText(text))
            /\ IF Truthy(ExtractedString(text, "_intent"))
                    \/ Truthy(ExtractedString(text, "_displayName"))
               THEN StoredExtracted(TrackedId(events[s], index), text)
               ELSE UNCHANGED storeVars]_vars

\* C2 witness: {foo, _intent: x, _displayName: y} arrived in two fragments,
\* the output ends with the delta {foo} and the stop, the store holds x and y
C2_Witness ==
  /\ events["s1"] = <<Start0, Delta0Open, Delta0Meta, Stop0>>
  /\ OutOf("s1") = <<StandardFraming(Start0),
                     SyntheticDelta("0", <<"{", "foo=bar", "}">>),
                     StandardFraming(Stop0)>>
  /\ "t1" \in DOMAIN metadataMap[SseProc]
  /\ metadataMap[SseProc]["t1"].intent = "x"
  /\ metadataMap[SseProc]["t1"].displayName = "y"
  /\ files["A"] = FileOf(metadataMap[SseProc])

\* C4: an event in standard framing that is not an input_json_delta of a
\* tracked block is emitted exactly once, byte for byte, after everything
\* emitted before it; a suppressed delta emits nothing; nothing already
\* emitted is changed or reordered.
C4_PassThroughOrder ==
  [][\A s \in Streams :
       /\ Len(OutOf(s)') >= Len(OutOf(s))
       /\ SubSeq(OutOf(s)', 1, Len(OutOf(s))) = OutOf(s)
       /\ Received(s) =>
            IF Suppressed(events[s], NewEvent(s))
            THEN OutOf(s)' = OutOf(s)
            ELSE /\ Len(OutOf(s)') \in {Len(OutOf(s)) + 1, Len(OutOf(s)) + 2}
                 /\ OutOf(s)'[Len(OutOf(s)')] = StandardFraming(NewEvent(s))
                 /\ Len(OutOf(s)') = Len(OutOf(s)) + 2 =>
                      /\ OutOf(s)'[Len(OutOf(s)) + 1] # StandardFraming(NewEvent(s))
                      /\ \E index \in IndexTokens :
                           IsSyntheticDelta(OutOf(s)'[Len(OutOf(s)) + 1], index)]_vars

\* C4 witness: two blocks are tracked at the same time, a delta of one was
\* suppressed and the stop of the other was passed on
C4_Witness ==
  /\ events["s1"] = <<Start0, Start1, Delta0Open, Stop1>>
  /\ OutOf("s1") = <<StandardFraming(Start0), StandardFraming(Start1), StandardFraming(Stop1)>>

\* C5: when the non-empty buffered JSON of a stopped tracked block does not
\* parse, the transform emits one input_json_delta with the raw buffered
\* text, then the stop event, writes nothing to the store, and ends the
\* tracking of the block with a clean parser state.
C5_ParseFailureFallback ==
  [][\A s \in Streams, index \in IndexTokens :
       (Received(s) /\ IsStop(NewEvent(s), index) /\ Tracked(events[s], index)
          /\ Concat(Fragments(events[s], index)) # <<>>
          /\ ~IsJsonObject(Concat(Fragments(events[s], index)))) =>
         /\ StopEmitted(s, index, Concat(Fragments(events[s], index)))
         /\ UNCHANGED storeVars
         /\ ~TrackedHas(xf'[StrippingStreamOf(s)].trackedBlocks, index)
         /\ xf'[StrippingStreamOf(s)].lineBuffer = <<>>
         /\ xf'[StrippingStreamOf(s)].currentEventType = <<>>
         /\ xf'[StrippingStreamOf(s)].currentData = <<>>]_vars

\* C5 witness: the truncated object { foo was stopped and re-emitted raw,
\* and the event after it was passed on
C5_Witness ==
  /\ events["s1"] = <<Start0, Delta0Open, Stop0, Ping>>
  /\ OutOf("s1") = <<StandardFraming(Start0),
                     SyntheticDelta("0", <<"{", "foo=bar">>),
                     StandardFraming(Stop0), StandardFraming(Ping)>>
  /\ metadataMap[SseProc] = EmptyMap
  /\ ~files["A"].exists

\* the store without its timestamps
Untimed(map) ==
  [k \in DOMAIN map |-> [intent |-> map[k].intent, displayName |-> map[k].displayName]]

\* the transform state after the text arrived as one single chunk
SingleChunk(text) == TransformChunk(InitialWorld, text, 0)

\* the transform state after the text arrived as one single chunk and the
\* stream ended
SingleChunkRun(text) == FlushStream(SingleChunk(text), 0)

SameAs(s, w) ==
  /\ xf[StrippingStreamOf(s)] = StreamOf(w)
  /\ Untimed(metadataMap[SseProc]) = Untimed(w.st.map)
  /\ files[sessionDir[SseProc]].exists = w.disk[sessionDir[SseProc]].exists
  /\ Untimed(files[sessionDir[SseProc]].data) = Untimed(w.disk[sessionDir[SseProc]].data)

\* C3: however the bytes received so far were cut into chunks, the emitted
\* chunks, their order, the parser state and the store contents are those of
\* the same bytes arriving as one single chunk, before and after flush.
C3_ChunkInvariance ==
  IF phase["s1"] = "closed"
  THEN SameAs("s1", SingleChunkRun(sent["s1"]))
  ELSE SameAs("s1", SingleChunk(sent["s1"]))

\* C3 witness: chunk boundaries cut through a line and between an event line
\* and its data line, and the stream ended with a stripped tool input
C3_Witness ==
  /\ phase["s1"] = "closed"
  /\ carried["s1"] = {"lineBuffer", "pair"}
  /\ sent["s1"] = FrameAll(<<Start0, Delta0Whole, Stop0>>)
  /\ OutOf("s1") = <<StandardFraming(Start0),
                     SyntheticDelta("0", <<"{", "foo=bar", "}">>),
                     StandardFraming(Stop0)>>
  /\ "t1" \in DOMAIN metadataMap[SseProc]

\* the deltas flush emits for the blocks still tracked, in map order
RECURSIVE FlushedDeltas(_)
FlushedDeltas(blocks) ==
  IF blocks = <<>> THEN <<>>
  ELSE LET b == Head(blocks)
       IN (IF b.bufferedJson = <<>> THEN <<>>
           ELSE IF IsJsonObject(b.bufferedJson)
           THEN <<SyntheticDelta(b.index, CleanedText(b.bufferedJson))>>
           ELSE <<SyntheticDelta(b.index, b.bufferedJson)>>)
          \o FlushedDeltas(Tail(blocks))

C7_StreamIsolation ==
  \A s \in Streams :
    xf[StrippingStreamOf(s)] =
      StreamOf(IF phase[s] = "closed" THEN SingleChunkRun(sent[s]) ELSE SingleChunk(sent[s]))

\* C7 witness: two responses track a block at the same index at the same time
\* with different buffered input
C7_Witness ==
  /\ events["s1"] = <<Start0, Delta0Whole>>
  /\ events["s2"] = <<Start0, Delta0Close>>
  /\ TrackedGet(xf["s1"].trackedBlocks, "0").bufferedJson = <<"{", "foo=bar", "_intent=x", "}">>
  /\ TrackedGet(xf["s2"].trackedBlocks, "0").bufferedJson = <<"}">>

(***************************************************************************)
(* Claims about the metadata store                                         *)
(***************************************************************************)
\* m1 is contained in m2 as a map
SubMap(m1, m2) ==
  \A k \in DOMAIN m1 : k \in DOMAIN m2 /\ m2[k] = m1[k]

C9_Original ==
  /\ (last.op = "set" /\ sessionDir[last.proc] # NoDir) =>
       \A q \in Procs \ {last.proc} :
         (sessionDir[q] = sessionDir[last.proc] /\ ~fileCache[q].set) =>
           StoreGet(files, StoreOf(q), last.id) = last.ret
  /\ last.op = "setSessionDir" =>
       \A id \in DOMAIN files[last.id].data :
         StoreGet(files, StoreOf(last.proc), id) = <<files[last.id].data[id]>>

\* C9 (amended): after a set(id, m) by one process, every other process bound
\* to the same directory that has not written itself and whose in-memory map
\* holds no entry for id returns m from get(id); after setSessionDir(D) get
\* returns every entry of D's file.
C9_CrossProcessGet ==
  /\ (last.op = "set" /\ sessionDir[last.proc] # NoDir) =>
       \A q \in Procs \ {last.proc} :
         (sessionDir[q] = sessionDir[last.proc] /\ ~fileCache[q].set
            /\ last.id \notin DOMAIN metadataMap[q]) =>
           StoreGet(files, StoreOf(q), last.id) = last.ret
  /\ last.op = "setSessionDir" =>
       \A id \in DOMAIN files[last.id].data :
         StoreGet(files, StoreOf(last.proc), id) = <<files[last.id].data[id]>>

\* C9 witness: a reader bound to the writer's directory misses in memory and
\* finds the entry just written by the other process in the file
C9_Witness ==
  /\ last.op = "set"
  /\ \E q \in Procs \ {last.proc} :
       /\ sessionDir[q] = sessionDir[last.proc]
       /\ sessionDir[q] # NoDir
       /\ ~fileCache[q].set
       /\ last.id \notin DOMAIN metadataMap[q]
       /\ StoreGet(files, StoreOf(q), last.id) = last.ret

\* C10: the first set or delete of a binding reads the file exactly once and
\* keeps every pre-existing entry with a different id in the rewritten file;
\* a later write of the same binding reads nothing and writes the shadow.
C10_ResumePreservation ==
  [][\A p \in Procs :
       (last'.proc = p /\ last'.op \in {"set", "delete"} /\ sessionDir[p] # NoDir
          /\ calls' = calls + 1) =>
         LET d == sessionDir[p]
         IN IF ~fileCache[p].set
            THEN /\ last'.reads = 1
                 /\ \A k \in DOMAIN files[d].data \ {last'.id} :
                      /\ k \in DOMAIN files'[d].data
                      /\ files'[d].data[k] = files[d].data[k]
            ELSE /\ last'.reads = 0
                 /\ \A k \in ToolUseIds \ {last'.id} :
                      /\ k \in DOMAIN files'[d].data <=> k \in DOMAIN fileCache[p].data
                      /\ k \in DOMAIN fileCache[p].data =>
                           files'[d].data[k] = fileCache[p].data[k]]_vars

\* C10 witness: a first write that read a file holding another entry
C10_Witness ==
  /\ last.op \in {"set", "delete"}
  /\ last.reads = 1
  /\ sessionDir[last.proc] # NoDir
  /\ \E k \in DOMAIN files[sessionDir[last.proc]].data : k # last.id

\* the store of process p after the step
StoreAfter(p) == [dir |-> sessionDir'[p], map |-> metadataMap'[p], cache |-> fileCache'[p]]

\* the step is a call of the store
IsCall(op) == calls' # calls /\ last'.op = op

\* C11: setSessionDir(B) leaves the in-memory map equal to the content of
\* B's file and the file shadow reset; no file ever holds an id that was not
\* stored under its own directory, and get returns metadata only for ids
\* stored under the directory the process is bound to.
C11_SessionIsolation ==
  [][calls' # calls =>
       /\ last'.op = "setSessionDir" =>
            /\ metadataMap'[last'.proc] = files'[last'.id].data
            /\ fileCache'[last'.proc] = NullCache
       /\ \A d \in Dirs : DOMAIN files'[d].data \subseteq stored'[d]
       /\ (last'.op = "get" /\ last'.ret # <<>>) =>
            last'.id \in stored'[sessionDir'[last'.proc]]]_vars

\* C11 witness: a process that stored an id under A, rebound to B and wrote
\* there asks for the id of A and gets nothing; B's file does not hold it
C11_Witness ==
  /\ last.op = "get"
  /\ sessionDir[last.proc] = "B"
  /\ last.id \in stored["A"] \ stored["B"]
  /\ last.ret = <<>>
  /\ files["B"].exists
  /\ fileCache[last.proc].set
  /\ last.id \notin DOMAIN files["B"].data

\* C12 (as stated): delete(id) removes id from the map and the shadow and
\* rewrites the file: afterwards get(id) returns nothing and every other
\* entry of the map, of the shadow and of the file is what it was.
C12_Original ==
  [][\A p \in Procs : (IsCall("delete") /\ last'.proc = p) =>
       LET id == last'.id
           d == sessionDir[p]
           Same(before, after) ==
             \A k \in ToolUseIds \ {id} :
               /\ k \in DOMAIN after <=> k \in DOMAIN before
               /\ k \in DOMAIN before => after[k] = before[k]
       IN /\ StoreGet(files', StoreAfter(p), id) = <<>>
          /\ id \notin DOMAIN metadataMap'[p]
          /\ id \notin DOMAIN fileCache'[p].data
          /\ Same(metadataMap[p], metadataMap'[p])
          /\ fileCache[p].set => Same(fileCache[p].data, fileCache'[p].data)
          /\ d # NoDir => Same(files[d].data, files'[d].data)]_vars

\* C14: with disk operations that may fail, a failed read counts as an empty
\* map (setSessionDir loads nothing, get finds nothing outside the memory), a
\* failed write leaves the file as it was and the in-memory map updated, so
\* that get of the same process returns the value, and every call returns.
C14_FailureSemantics ==
  [][calls' # calls =>
       LET p == last'.proc
           d == sessionDir'[p]
           unreadable == d # NoDir /\ ~files[d].readable
           unwritable == d # NoDir /\ ~files[d].writable
       IN /\ last'.ret \in {<<>>} \cup {<<m>> : m \in Metas}
          /\ (last'.op = "setSessionDir" /\ unreadable) => metadataMap'[p] = EmptyMap
          /\ (last'.op = "get" /\ unreadable /\ last'.id \notin DOMAIN metadataMap[p]) =>
               last'.ret = <<>>
          /\ (last'.op \in {"set", "delete"} /\ unwritable) => files' = files
          /\ last'.op = "set" => StoreGet(files', StoreAfter(p), last'.id) = last'.ret
          /\ (last'.op = "delete" /\ ~unwritable) =>
               StoreGet(files', StoreAfter(p), last'.id) = <<>>]_vars

\* C14 witness: a set whose write failed; the file lacks the entry and get
\* of the same process returns it
C14_Witness ==
  /\ last.op = "set"
  /\ sessionDir[last.proc] # NoDir
  /\ ~files[sessionDir[last.proc]].writable
  /\ last.id \notin DOMAIN files[sessionDir[last.proc]].data
  /\ StoreGet(files, StoreOf(last.proc), last.id) = last.ret

\* the buffered text of a stopped block makes the transform call set: it is
\* a JSON object with a non-empty string _intent or _displayName
HasMetadata(text) ==
  /\ IsJsonObject(text)
  /\ \/ Truthy(ExtractedString(text, "_intent"))
     \/ Truthy(ExtractedString(text, "_displayName"))

\* C13: whatever the interleaving of the transforms of one process, the
\* session file holds the entry of every id that a transform has set.
C13_NoLostUpdateInProcess ==
  /\ SubMap(metadataMap[SseProc], files[sessionDir[SseProc]].data)
  /\ \A s \in Streams : \A i \in 1..Len(events[s]) :
       (/\ IsStop(events[s][i], "0")
        /\ Tracked(SubSeq(events[s], 1, i - 1), "0")
        /\ HasMetadata(Concat(Fragments(SubSeq(events[s], 1, i - 1), "0")))) =>
         TrackedId(SubSeq(events[s], 1, i - 1), "0")
           \in DOMAIN files[sessionDir[SseProc]].data

\* C13 witness: both responses have set the id of their tool call
C13_Witness ==
  /\ \A s \in Streams : \E i \in 1..Len(events[s]) :
       /\ IsStop(events[s][i], "0")
       /\ Tracked(SubSeq(events[s], 1, i - 1), "0")
       /\ HasMetadata(Concat(Fragments(SubSeq(events[s], 1, i - 1), "0")))
  /\ DOMAIN files[sessionDir[SseProc]].data = {"t1", "t2"}

\* C20: a second pass of the schema augmentation over a body changes nothing:
\* it adds no property and no required entry.
C20_SchemaIdempotent ==
  [][(passes >= 1 /\ passes' = passes + 1) => reqBody' = reqBody]_vars

\* C20 witness: after two passes, a tool whose required list already named
\* _intent and whose properties lacked it has been augmented
C20_Witness ==
  /\ passes = 2
  /\ reqOriginal.tools.kind = "array"
  /\ \E i \in 1..Len(reqOriginal.tools.items) :
       LET t == reqOriginal.tools.items[i][1]
       IN /\ t.input_schema # None
          /\ t.input_schema[1].properties # None
          /\ t.input_schema[1].required # None
          /\ ~HasKey(t.input_schema[1].properties[1], "_intent")
          /\ Includes(t.input_schema[1].required[1], "_intent")
          /\ reqBody.tools.items[i][1] # t

(***************************************************************************)
(* Claims about the fetch interceptor                                      *)
(***************************************************************************)
\* the step starts a call / ends the pending call with a response
Calling == flight.stage = "idle" /\ flight'.stage # "idle"
Responding == flight.stage # "idle" /\ outcome'.kind = "response"

\* a call that is a POST with a string body
IsStringPost(init) ==
  /\ init # None
  /\ init[1].method # None
  /\ ToUpperCase(init[1].method[1]) = "POST"
  /\ init[1].body.kind = "string"

\* parsing or rewriting this body text raises an exception
RewritingThrows(text) ==
  \/ JsonParse(text).threw
  \/ AddMetadataToAllTools(JsonParse(text).value).threw
  \/ InjectMetadataIntoHistory(AddMetadataToAllTools(JsonParse(text).value).value,
                               files, StoreOf(SseProc)).threw

\* C15: when parsing or rewriting the body of a POST to the messages endpoint
\* raises an exception, the call issues exactly the caller's input and init,
\* stays pending on that request, and the response of that request is what the
\* caller gets.
C15_SoftFailThrough ==
  [][/\ (Calling /\ flight'.matched /\ IsStringPost(flight'.init)
           /\ RewritingThrows(flight'.init[1].body.text)) =>
          /\ flight'.stage = "plain"
          /\ requests' = <<Request(flight'.input, flight'.init)>>
          /\ outcome'.kind # "rejected"
     /\ (Responding /\ flight.matched /\ IsStringPost(flight.init)
           /\ RewritingThrows(flight.init[1].body.text)) =>
          /\ requests = <<Request(flight.input, flight.init)>>
          /\ outcome'.response = outcome'.received]_vars

\* C15 witness: a POST whose JSON body makes the rewriting throw (a null
\* in its tools array) is pending on the caller's own input and init
C15_Witness ==
  /\ flight.stage = "plain"
  /\ flight.matched
  /\ IsStringPost(flight.init)
  /\ flight.init[1].body.text.valid
  /\ RewritingThrows(flight.init[1].body.text)
  /\ requests = <<Request(flight.input, flight.init)>>

\* the response handed to the caller has the status, status text and headers
\* of the response originalFetch delivered
SameHead(response, received) ==
  /\ response.status = received.status
  /\ response.statusText = received.statusText
  /\ response.headers = received.headers

\* C16 (as stated): for a POST with a string body that spells a JSON object
\* to the messages endpoint, the response body (if any) is piped through the transform iff the
\* content-type is an event stream; status, status text and headers are kept.
C16_Original ==
  [][(Responding /\ flight.matched /\ IsStringPost(flight.init)
        /\ flight.init[1].body.text.valid
        /\ flight.init[1].body.text.value.kind = "object"
        /\ outcome'.received.hasBody) =>
       /\ outcome'.response.piped <=>
            Includes(outcome'.received.headers.contentType, "text/event-stream")
       /\ SameHead(outcome'.response, outcome'.received)]_vars

\* C16 (amended): the response body is piped through the transform iff the
\* response answers the rewritten request (rewriting raised no exception and
\* the rewritten request did not fail), its content-type is an event stream
\* and it has a body; status, status text and headers are kept in every case.
C16_StripIffEventStream ==
  [][/\ (Responding /\ flight.matched /\ IsStringPost(flight.init)) =>
          /\ outcome'.response.piped <=>
               /\ ~RewritingThrows(flight.init[1].body.text)
               /\ Len(requests) = 1
               /\ Includes(outcome'.received.headers.contentType, "text/event-stream")
               /\ outcome'.received.hasBody
          /\ SameHead(outcome'.response, outcome'.received)
          /\ outcome'.response.content = outcome'.received.content
     /\ (Responding /\ ~(flight.matched /\ IsStringPost(flight.init))) =>
          outcome'.response = outcome'.received]_vars

\* C16 witness: an event stream answered a rewritten POST and was piped
C16_Witness ==
  /\ outcome.kind = "response"
  /\ outcome.stage = "rewritten"
  /\ outcome.response.piped
  /\ outcome.received.status = 200
  /\ Len(outcome.received.headers.contentType) = 2

\* C17 (as stated): a call whose URL is not the messages endpoint of the base
\* URL configured when the call is made passes the caller's input and init to
\* the underlying fetch, returns its response unchanged, writes no
\* LastApiError whatever the status and does not touch the metadata store.
C17_Original ==
  [][/\ (Calling /\ ~flight'.matched) =>
          /\ requests' = <<Request(flight'.input, flight'.init)>>
          /\ flight'.reads = 0
          /\ UNCHANGED <<storeVars, errorFile>>
     /\ (Responding /\ ~flight.matched) =>
          /\ outcome'.response = outcome'.received
          /\ UNCHANGED <<storeVars, errorFile>>]_vars

\* the message the capture stores for a response whose body text is read
CapturedMessage(received) ==
  LET c == received.content
      jsonMessage == IF c.errorMessage # None /\ Truthy(c.errorMessage[1])
                     THEN c.errorMessage
                     ELSE IF c.message # None /\ Truthy(c.message[1]) THEN c.message
                     ELSE None
  IN IF ~received.readable THEN received.statusText
     ELSE IF received.hasBody /\ c.valid /\ ~c.isNull
     THEN IF jsonMessage # None THEN jsonMessage[1] ELSE received.statusText
     ELSE IF received.hasBody /\ c.raw # "" THEN c.raw
     ELSE received.statusText

\* the message as the claim states it: JSON message, else raw text, else
\* status text
ClaimedMessage(received) ==
  LET c == received.content
  IN IF received.hasBody /\ c.valid /\ c.errorMessage # None THEN c.errorMessage[1]
     ELSE IF received.hasBody /\ c.valid /\ c.message # None THEN c.message[1]
     ELSE IF received.hasBody /\ c.raw # "" THEN c.raw
     ELSE received.statusText

\* the step answers a call to the messages endpoint with an error status
CapturingResponse ==
  /\ Responding
  /\ ShouldCaptureApiErrors(UrlOf(flight.input), env)
  /\ outcome'.received.status >= 400

Popping ==
  /\ outcome'.kind = "lastApiError"
  /\ flight' = flight
  /\ clock' = clock
  /\ (outcome' # outcome \/ errorFile' # errorFile)

ToolsOf(body) ==
  IF body.kind = "object" /\ body.tools.kind = "array" THEN body.tools.items ELSE <<>>

\* the rewrite looks at this tool: its name starts with mcp__ (or the
\* all-tools flag is on) and its input schema has a properties map
Eligible(tool) ==
  /\ TOOL_METADATA_FOR_ALL_TOOLS \/ (tool.name # None /\ StartsWith(tool.name[1], <<McpPrefix>>))
  /\ tool.input_schema # None
  /\ tool.input_schema[1].properties # None

ValueOf(obj, key) == obj[CHOOSE i \in 1..Len(obj) : obj[i].key = key].value

MetadataFields == <<"_intent", "_displayName">>

PropertiesOf(tool) == tool.input_schema[1].properties[1]
RequiredOf(tool) ==
  IF tool.input_schema[1].required = None THEN <<>> ELSE tool.input_schema[1].required[1]

IsPrefix(a, b) == Len(a) <= Len(b) /\ SubSeq(b, 1, Len(a)) = a

\* C21 (as stated): after rewriting, every eligible tool whose input schema
\* has a properties map has string-typed _intent and _displayName properties
\* and a required list that includes both.
C21_Original ==
  passes >= 1 =>
    \A i \in 1..Len(ToolsOf(reqBody)) :
      LET tool == ToolsOf(reqBody)[i][1]
      IN Eligible(tool) =>
           /\ \A n \in 1..2 :
                /\ HasKey(PropertiesOf(tool), MetadataFields[n])
                /\ ValueOf(PropertiesOf(tool), MetadataFields[n]).type = "string"
                /\ Includes(RequiredOf(tool), MetadataFields[n])

\* C21 (amended): after rewriting, every eligible tool has both properties;
\* one that was absent is the string-typed schema, one that was present keeps
\* the schema it had; the required list includes both unless both properties
\* were already present, and then the tool is unchanged.
C21_Postcondition ==
  passes >= 1 =>
    \A i \in 1..Len(ToolsOf(reqOriginal)) :
      LET before == ToolsOf(reqOriginal)[i][1]
          after == ToolsOf(reqBody)[i][1]
      IN Eligible(before) =>
           /\ \A n \in 1..2 :
                /\ HasKey(PropertiesOf(after), MetadataFields[n])
                /\ IF HasKey(PropertiesOf(before), MetadataFields[n])
                   THEN ValueOf(PropertiesOf(after), MetadataFields[n])
                          = ValueOf(PropertiesOf(before), MetadataFields[n])
                   ELSE ValueOf(PropertiesOf(after), MetadataFields[n]).type = "string"
           /\ IF \A n \in 1..2 : HasKey(PropertiesOf(before), MetadataFields[n])
              THEN after = before
              ELSE \A n \in 1..2 : Includes(RequiredOf(after), MetadataFields[n])

\* C21 witness: an mcp__ tool with the property path and no required list
\* has been rewritten and has both properties and both required entries
C21_Witness ==
  /\ passes >= 1
  /\ \E i \in 1..Len(ToolsOf(reqOriginal)) :
       /\ ToolsOf(reqOriginal)[i][1] =
            Tool(Some(<<McpPrefix, "files">>),
                 Some(InputSchema(Some(<<Property("path", PathSchema)>>), None)))
       /\ ToolsOf(reqBody)[i][1] =
            Tool(Some(<<McpPrefix, "files">>),
                 Some(InputSchema(Some(<<Property("path", PathSchema),
                                         Property("_intent", IntentSchema),
                                         Property("_displayName", DisplayNameSchema)>>),
                                  Some(<<"_intent", "_displayName">>))))

\* C22: the rewrite keeps the body, the number of tools and each tool's name;
\* a tool that is not eligible is unchanged; in an eligible tool the old
\* properties and the old required entries come first, unchanged and in their
\* order, and what follows them are only _intent and _displayName entries
\* that were not there before.
C22_SchemaFrame ==
  passes >= 1 =>
    /\ reqBody.kind = reqOriginal.kind
    /\ reqBody.messages = reqOriginal.messages
    /\ reqBody.tools.kind = reqOriginal.tools.kind
    /\ Len(reqBody.tools.items) = Len(reqOriginal.tools.items)
    /\ \A i \in 1..Len(ToolsOf(reqOriginal)) :
         LET before == ToolsOf(reqOriginal)[i][1]
             after == ToolsOf(reqBody)[i][1]
         IN IF ~Eligible(before) THEN after = before
            ELSE /\ after.name = before.name
                 /\ IsPrefix(PropertiesOf(before), PropertiesOf(after))
                 /\ \A j \in (Len(PropertiesOf(before)) + 1)..Len(PropertiesOf(after)) :
                      /\ Includes(MetadataFields, PropertiesOf(after)[j].key)
                      /\ ~HasKey(PropertiesOf(before), PropertiesOf(after)[j].key)
                 /\ IsPrefix(RequiredOf(before), RequiredOf(after))
                 /\ \A j \in (Len(RequiredOf(before)) + 1)..Len(RequiredOf(after)) :
                      /\ Includes(MetadataFields, RequiredOf(after)[j])
                      /\ ~Includes(RequiredOf(before), RequiredOf(after)[j])
                 /\ (RequiredOf(after) = RequiredOf(before)) =>
                      after.input_schema[1].required = before.input_schema[1].required

\* C22 witness: a body with a tool named Read, left as it was, and an mcp__
\* tool whose path property and required entry path are followed by the
\* added ones
C22_Witness ==
  /\ passes >= 1
  /\ Len(ToolsOf(reqOriginal)) = 2
  /\ ToolsOf(reqOriginal)[1][1] =
       Tool(Some(<<"Read">>), Some(InputSchema(Some(<<Property("path", PathSchema)>>), None)))
  /\ ToolsOf(reqBody)[1] = ToolsOf(reqOriginal)[1]
  /\ ToolsOf(reqOriginal)[2][1] =
       Tool(Some(<<McpPrefix, "files">>),
            Some(InputSchema(Some(<<Property("path", PathSchema)>>), Some(<<"path">>))))
  /\ RequiredOf(ToolsOf(reqBody)[2][1]) = <<"path", "_intent", "_displayName">>
  /\ Len(PropertiesOf(ToolsOf(reqBody)[2][1])) = 3

\* the messages array of a body, empty when the body has none
MessagesOf(body) ==
  IF body.kind = "object" /\ body.messages.kind = "array" THEN body.messages.items ELSE <<>>

HasMetadataField(block) ==
  /\ block.input # None
  /\ HasKey(block.input[1], "_intent") \/ HasKey(block.input[1], "_displayName")

\* C23: with an unchanged store a second pass of re-injection changes
\* nothing, and no pass modifies a user message, a block that is not a
\* tool_use block, or a tool_use block whose input already has _intent or
\* _displayName.
C23_InjectIdempotent ==
  [][passes' = passes + 1 =>
       /\ passes >= 1 => reqBody' = reqBody
       /\ Len(MessagesOf(reqBody')) = Len(MessagesOf(reqBody))
       /\ \A i \in 1..Len(MessagesOf(reqBody)) :
            LET before == MessagesOf(reqBody)[i][1]
                after == MessagesOf(reqBody')[i][1]
            IN /\ before.role # "assistant" => after = before
               /\ after.role = before.role
               /\ after.content.kind = before.content.kind
               /\ Len(after.content.blocks) = Len(before.content.blocks)
               /\ \A j \in 1..Len(before.content.blocks) :
                    (\/ before.content.blocks[j].type # "tool_use"
                     \/ HasMetadataField(before.content.blocks[j])) =>
                      after.content.blocks[j] = before.content.blocks[j]]_vars

\* C23 witness: after two passes over an assistant message with a block that
\* had _displayName and a block that had no field, the first is as it was
\* and the second has the stored fields once
C23_Witness ==
  /\ passes = 2
  /\ Len(MessagesOf(reqOriginal)) >= 1
  /\ MessagesOf(reqOriginal)[1][1].content.blocks =
       <<Block("tool_use", "t1", Some(<<Property("_displayName", "old")>>)),
         Block("tool_use", "t1", Some(PathInput))>>
  /\ MessagesOf(reqBody)[1][1].content.blocks =
       <<Block("tool_use", "t1", Some(<<Property("_displayName", "old")>>)),
         Block("tool_use", "t1",
               Some(PathInput \o <<Property("_intent", "x"), Property("_displayName", "y")>>))>>

\* the block of the re-injected history with this id
InjectedBlocks == MessagesOf(reqBody)[1][1].content.blocks

InjectedInput(id) ==
  InjectedBlocks[CHOOSE j \in 1..Len(InjectedBlocks) : InjectedBlocks[j].id = id].input[1]

\* the tool calls of the response as the provider sent them
SentBlock(index) == LastBlock(ParsedEvents(events["s1"]), index)

\* the pair key: value of the object text, as a property; <<>> when absent
SentField(text, key) ==
  LET obj == InputOf(text)
  IN IF HasKey(obj, key) THEN <<Property(key, ValueOf(obj, key))>> ELSE <<>>

\* the same, when the value is a non-empty string
StoredField(text, key) ==
  IF Truthy(ExtractedString(text, key)) THEN <<Property(key, ExtractedString(text, key))>> ELSE <<>>

\* C24 (as stated): a tool call whose _intent and _displayName were stripped
\* by the SSE transform has exactly the same two values in the history after
\* re-injection, in the stripping process and in a process that only has the
\* file.
C24_Original ==
  last.op = "inject" =>
    \A n \in 1..2 :
      LET sentBlock == SentBlock(HistoryIndexes[n])
      IN sentBlock.text # <<>> =>
           \A k \in 1..2 :
             SentField(sentBlock.text, MetadataFields[k]) # <<>> =>
               /\ HasKey(InjectedInput(sentBlock.id), MetadataFields[k])
               /\ <<Property(MetadataFields[k],
                             ValueOf(InjectedInput(sentBlock.id), MetadataFields[k]))>>
                    = SentField(sentBlock.text, MetadataFields[k])

\* C24 (amended): the history after re-injection holds, for every tool call
\* of the response, the input without the two fields followed by each of
\* _intent and _displayName that was a non-empty string, with its value, and
\* by nothing for a field that was empty or not a string; this in the
\* stripping process, which finds the ids in memory and reads no file when
\* all are there, and in a later process of the same directory, which reads
\* the file once.
C24_StripThenInject ==
  last.op = "inject" =>
    /\ last.reads <= 1
    /\ \A n \in 1..2 :
         LET sentBlock == SentBlock(HistoryIndexes[n])
         IN sentBlock.text # <<>> =>
              /\ \E j \in 1..Len(InjectedBlocks) : InjectedBlocks[j].id = sentBlock.id
              /\ InjectedInput(sentBlock.id) =
                   InputOf(CleanedText(sentBlock.text))
                     \o StoredField(sentBlock.text, "_intent")
                     \o StoredField(sentBlock.text, "_displayName")
              /\ (last.proc = SseProc /\ sentBlock.id \notin DOMAIN metadataMap[SseProc]) =>
                   StoredField(sentBlock.text, "_intent")
                     \o StoredField(sentBlock.text, "_displayName") = <<>>
    /\ (last.proc = SseProc
          /\ \A n \in 1..2 : SentBlock(HistoryIndexes[n]).text # <<>> =>
               SentBlock(HistoryIndexes[n]).id \in DOMAIN metadataMap[SseProc]) =>
         last.reads = 0

\* C24 witness: {foo, _intent: x, _displayName: y} was stripped to {foo} and
\* a process that only has the file has re-injected x and y
C24_Witness ==
  /\ last.op = "inject"
  /\ last.proc # SseProc
  /\ last.reads = 1
  /\ SentBlock("0").text = <<"{", "foo=bar", "_intent=x", "_displayName=y", "}">>
  /\ MessagesOf(reqOriginal)[1][1].content.blocks =
       <<Block("tool_use", "t1", Some(<<Property("foo", "bar")>>))>>
  /\ InjectedBlocks =
       <<Block("tool_use", "t1",
               Some(<<Property("foo", "bar"), Property("_intent", "x"),
                      Property("_displayName", "y")>>))>>

(***************************************************************************)
(* Claims about the OAuth flow                                             *)
(***************************************************************************)
\* the step in which the callback server answers a request to CALLBACK_PATH
\* while the code promise is pending
DecidingCallback ==
  /\ handled'.n = handled.n + 1
  /\ handled'.path = CALLBACK_PATH
  /\ codePromise.state = "pending"

StateMismatch(query) == query.state # Some(ExpectedState)
HasError(query) == query.error # None /\ query.error[1] # ""
CodeMissing(query) == query.code = None \/ query.code[1] = ""

Rejected400(error) ==
  /\ handled'.status = 400
  /\ codePromise' = [state |-> "rejected", code |-> "", error |-> error]

\* C25 (as stated): a callback whose state differs from the state of the
\* flow, or has none, never resolves the flow with a code, whatever other
\* parameters it carries; the flow fails with the state-mismatch error.
C25_Original ==
  [][(DecidingCallback /\ StateMismatch(handled'.query)) =>
       Rejected400(<<"OAuth state mismatch">>)]_vars

\* C26 (as stated): the handler checks the state first, then the error
\* parameter, then the code; a callback fails with the reason of the first
\* condition it violates in that order, each with its own error.
C26_Original ==
  [][DecidingCallback =>
       LET query == handled'.query
       IN IF StateMismatch(query) THEN Rejected400(<<"OAuth state mismatch">>)
          ELSE IF HasError(query) THEN Rejected400(<<"OAuth error: ", query.error[1]>>)
          ELSE IF CodeMissing(query) THEN Rejected400(<<"No authorization code">>)
          ELSE /\ handled'.status = 200
               /\ codePromise' = [state |-> "resolved", code |-> query.code[1],
                                  error |-> <<>>]]_vars

\* the steps of authenticate() in their order
StepOrder ==
  <<"idle", "metadata", "binding", "registering", "opening", "waiting", "exchanging",
    "returned">>
StepIndex(pc) == CHOOSE i \in 1..Len(StepOrder) : StepOrder[i] = pc

\* the server of the flow has been bound
Bound == auth.pc \in {"registering", "opening", "waiting", "exchanging", "returned"}

\* C27: authenticate() moves from each step to the next one only (the
\* registration step is skipped for the default client), or fails; the port
\* is the one the kept server was bound to and does not change afterwards;
\* the registration request is sent in the step that binds the server, never
\* earlier; and every request of the flow carries the redirect_uri of that
\* port.
C27_StepOrderAndPort ==
  [][/\ auth'.pc # auth.pc =>
          \/ auth'.pc = "thrown" /\ auth.pc \notin {"idle", "returned"}
          \/ /\ auth.pc \notin {"thrown", "returned"}
             /\ auth'.pc # "thrown"
             /\ \/ StepIndex(auth'.pc) = StepIndex(auth.pc) + 1
                \/ auth.pc = "binding" /\ auth'.pc = "opening"
     /\ (auth.pc = "binding" /\ auth'.pc \in {"registering", "opening"}) =>
          /\ auth'.port = auth.port
          /\ server' = Some(auth.port)
          /\ auth.port \in listening'
          /\ auth.port \notin inUse
     /\ (auth.pc \in {"registering", "opening", "waiting", "exchanging"}) =>
          auth'.port = auth.port
     /\ wire' # wire =>
          /\ Len(wire') = Len(wire) + 1
          /\ SubSeq(wire', 1, Len(wire)) = wire
          /\ wire'[Len(wire')].redirect_uri = <<"http://localhost:", auth'.port, CALLBACK_PATH>>
          /\ wire'[Len(wire')].kind = "register" => (auth.pc = "binding" /\ auth'.port \in listening')
          /\ wire'[Len(wire')].kind = "authorize" => auth'.pc = "opening"
          /\ wire'[Len(wire')].kind = "token" => auth'.pc = "exchanging"
          /\ auth'.pc \in {"registering", "opening", "exchanging"}]_vars

\* C27 witness: with two ports held by others the flow has registered,
\* opened the browser and exchanged the code, each with the third port
C27_Witness ==
  /\ auth.pc = "returned"
  /\ auth.port = CALLBACK_PORT_START + 2
  /\ Len(wire) = 3
  /\ wire[1].kind = "register" /\ wire[2].kind = "authorize" /\ wire[3].kind = "token"
  /\ \A i \in 1..3 :
       wire[i].redirect_uri = <<"http://localhost:", CALLBACK_PORT_START + 2, CALLBACK_PATH>>

\* has startCallbackServer() been entered
Binding == auth.metadata # None

\* C28: while it binds, the flow has closed every port below the candidate,
\* all of them held by others, and listens on none; once bound it listens on
\* exactly the lowest port of the range that nobody held; it throws when the
\* whole range is held or when a bind fails otherwise, and then listens on
\* no port and has closed the last candidate as well.
C28_PortBinding ==
  /\ (Binding /\ auth.pc = "binding") =>
       /\ closed = CALLBACK_PORT_START..(auth.port - 1)
       /\ closed \subseteq inUse
       /\ listening = {}
       /\ server = None
  /\ Bound =>
       /\ auth.port \in Ports \ inUse
       /\ \A q \in Ports \ inUse : auth.port <= q
       /\ closed = CALLBACK_PORT_START..(auth.port - 1)
       /\ listening = {auth.port}
       /\ server = Some(auth.port)
  /\ (Binding /\ auth.pc = "thrown") =>
       /\ closed = CALLBACK_PORT_START..auth.port
       /\ listening = {}
       /\ server = None
       /\ timeout = "cleared"
       /\ IF auth.port \in inUse
          THEN inUse = Ports /\ auth.error = <<"All OAuth callback ports are in use">>
          ELSE /\ auth.error # <<"All OAuth callback ports are in use">>
               /\ \A q \in Ports \ inUse : auth.port <= q

\* C28 witness: the first three ports are held by others and so is a later
\* one; the server is bound to the fourth port
C28_Witness ==
  /\ Bound
  /\ inUse = (CALLBACK_PORT_START..(CALLBACK_PORT_START + 2)) \cup {CALLBACK_PORT_END}
  /\ auth.port = CALLBACK_PORT_START + 3
  /\ listening = {CALLBACK_PORT_START + 3}
  /\ closed = CALLBACK_PORT_START..(CALLBACK_PORT_START + 2)

TimeoutError == <<"OAuth timeout - no callback received">>
ServerErrorError == <<"Callback server error: ", "error text">>

\* C29 (as stated): when no callback request is ever received after the
\* server is bound, the timer eventually fires.
C29_Original == [](Bound => <>(timeout = "fired"))

\* C29 (amended): when no callback request is ever received after the server
\* is bound, the timer eventually fires unless an error of the server has
\* cleared it and rejected the code promise; the firing timer closes the
\* server and rejects the pending promise; a flow that waits for the code
\* fails with the timeout error or the server error.
C29_FlowTimeout ==
  /\ [](Bound => <>(\/ timeout = "fired"
                    \/ timeout = "cleared" /\ codePromise.error = ServerErrorError))
  /\ [][(timeout = "pending" /\ timeout' = "fired") =>
          /\ server' = None
          /\ (server # None => server[1] \notin listening')
          /\ codePromise.state = "pending" =>
               codePromise' = [state |-> "rejected", code |-> "", error |-> TimeoutError]]_vars
  /\ (auth.pc = "waiting") ~>
       (auth.pc = "thrown" /\ auth.error \in {TimeoutError, ServerErrorError})

\* C29 witness: the flow waited for the code and has failed with the timeout
\* error; the timer has fired and the server is closed
C29_Witness ==
  /\ auth.pc = "thrown"
  /\ auth.error = TimeoutError
  /\ timeout = "fired"
  /\ Len(statuses) > 0
  /\ statuses[Len(statuses)] = <<"Waiting for you to authorize in browser...">>
  /\ server = None
  /\ listening = {}

HasRegistrationEndpoint(metadata) ==
  /\ metadata[1].registration_endpoint # None
  /\ metadata[1].registration_endpoint[1] # ""

RegistrationError == <<"Failed to register OAuth client: ", "error text">>

\* C30: once the server is bound, registration is attempted exactly when the
\* metadata has a (non-empty) registration endpoint, and otherwise the client
\* id is craft-agent; when registration fails the server is closed in the
\* step that throws, and the browser is never opened.
C30_RegistrationBranch ==
  [][/\ (auth.pc = "binding" /\ auth'.pc \in {"registering", "opening"}) =>
          IF HasRegistrationEndpoint(auth.metadata)
          THEN /\ auth'.pc = "registering"
               /\ wire' = Append(wire, RegistrationRequest(auth.port))
          ELSE /\ auth'.pc = "opening"
               /\ auth'.clientId = "craft-agent"
               /\ wire' = Append(wire, AuthorizationUrl("craft-agent", auth.port, ExpectedState))
     /\ (auth'.pc = "registering") => HasRegistrationEndpoint(auth'.metadata)
     /\ (auth.pc = "registering" /\ auth'.pc = "thrown") =>
          /\ auth'.error = RegistrationError
          /\ server' = None
          /\ auth.port \notin listening'
          /\ wire' = wire
     /\ (auth.pc = "thrown" /\ auth.error = RegistrationError) =>
          /\ auth.port \notin listening'
          /\ \A i \in 1..Len(wire') : wire'[i].kind # "authorize"]_vars

\* C30 witness: registration was attempted and failed while the server was
\* listening; the server is closed and no authorization URL was opened
C30_Witness ==
  /\ auth.pc = "thrown"
  /\ auth.error = RegistrationError
  /\ Len(wire) = 1
  /\ wire[1].kind = "register"
  /\ closed = {}
  /\ listening = {}
  /\ timeout = "pending"

(***************************************************************************)
(* Claims about metadata discovery, cancellation and the token endpoint    *)
(***************************************************************************)
\* an answer that is OK and whose JSON has both endpoints
HasBothEndpoints(response) ==
  /\ ~response.rejected
  /\ response.status \in 200..299
  /\ response.json
  /\ response.authorization_endpoint \notin {Undefined, ""}
  /\ response.token_endpoint \notin {Undefined, ""}

DiscoveryFinished == discovery.pc \in {"done", "settled", "refreshing"}

\* C31: the candidates are fetched in the order origin root, path-scoped;
\* nothing is fetched for an invalid URL and nothing after an answer that is
\* OK and has both endpoints, which is the result; any other answer moves on
\* to the next candidate, and the result is null when both candidates fail;
\* checkAuthRequired() returns whether there is a result and never throws,
\* and authenticate() throws exactly when the result is null.
C31_Discovery ==
  LET url == ParseUrl(discovery.mcpUrl)
      fetched == discovery.fetched
      n == Len(fetched)
  IN discovery.caller # "none" =>
       /\ n <= 2
       /\ n >= 1 => fetched[1].url = <<url.origin, "/.well-known/oauth-authorization-server">>
       /\ n = 2 => fetched[2].url =
                     <<url.origin, "/.well-known/oauth-authorization-server", url.pathname>>
       /\ ~url.valid => (n = 0 /\ DiscoveryFinished /\ discovery.result = None)
       /\ \A i \in 1..(n - 1) : ~HasBothEndpoints(fetched[i].response)
       /\ discovery.pc = "fetching" =>
            (n < 2 /\ \A i \in 1..n : ~HasBothEndpoints(fetched[i].response))
       /\ DiscoveryFinished =>
            IF n > 0 /\ HasBothEndpoints(fetched[n].response)
            THEN discovery.result =
                   <<[registration_endpoint |-> fetched[n].response.registration_endpoint]>>
            ELSE discovery.result = None /\ (url.valid => n = 2)
       /\ (discovery.caller = "checkAuthRequired" /\ discovery.pc = "settled") =>
            discovery.outcome = [threw |-> FALSE, value |-> discovery.result # None,
                                 error |-> <<>>]
       /\ (discovery.caller = "authenticate" /\ discovery.pc = "done"
             /\ auth.pc # "metadata") =>
            IF discovery.result = None THEN auth.pc = "thrown" ELSE auth.pc = "binding"

\* C31 witness: the root candidate answered 404, the path-scoped candidate
\* had the metadata, and authenticate() went on with it
C31_Witness ==
  /\ discovery.caller = "authenticate"
  /\ Len(discovery.fetched) = 2
  /\ discovery.fetched[1].response.status = 404
  /\ discovery.fetched[2].url = <<"https://mcp.example", WELL_KNOWN, "/v1/mcp">>
  /\ HasBothEndpoints(discovery.fetched[2].response)
  /\ discovery.result # None
  /\ auth.pc = "binding"

\* C32 (as stated): after cancel() no callback request is handled and none
\* resolves the code promise; a token exchange in flight at cancel() is not
\* interrupted: it ends only by the answer of the token endpoint.
C32_Original ==
  [][cancelled =>
       /\ handled'.path = CALLBACK_PATH => handled' = handled
       /\ codePromise.state # "resolved" => codePromise'.state # "resolved"
       /\ (auth.pc = "exchanging" /\ auth'.pc # "exchanging") =>
            \E response \in TokenResponses :
              IF response.ok THEN auth'.pc = "returned"
              ELSE auth'.pc = "thrown" /\ auth'.error[1] = "Failed to exchange code for tokens: "]_vars

\* the error carries the text of a non-OK answer of the token endpoint
CarriesResponseText(error) ==
  \E response \in TokenResponses :
    /\ ~response.ok
    /\ \E i \in 1..Len(error) : error[i] = response.text

\* C33 (as stated): when the token endpoint answers non-OK, the error thrown
\* by the code exchange and the error thrown by the refresh grant both carry
\* the raw text of the response.
C33_Original ==
  [][/\ (auth.pc = "exchanging" /\ auth'.pc = "thrown") => CarriesResponseText(auth'.error)
     /\ (discovery.pc = "refreshing" /\ discovery'.pc = "settled"
           /\ discovery'.outcome.threw) =>
          CarriesResponseText(discovery'.outcome.error)]_vars

\* the message ends with the text of the error
EndsWith(message, error) ==
  /\ Len(message) > Len(error)
  /\ SubSeq(message, Len(message) - Len(error) + 1, Len(message)) = error

\* the failures of authenticate() that the claim lists: every one but a
\* failure to open the browser and an error of the callback server
ListedFailure(error) ==
  /\ error # <<"openUrl failed">>
  /\ error[1] # "Callback server error: "

\* C34 (as stated): in the step in which authenticate() throws one of the
\* listed failures, onStatus is first given a message that describes it.
C34_Original ==
  [][(auth.pc # "thrown" /\ auth'.pc = "thrown" /\ ListedFailure(auth'.error)) =>
       /\ Len(statuses') = Len(statuses) + 1
       /\ SubSeq(statuses', 1, Len(statuses)) = statuses
       /\ EndsWith(statuses'[Len(statuses')], auth'.error)]_vars

(***************************************************************************)
(* Claims about the end of a stream, the requests of a call, and writers   *)
(* in two processes                                                        *)
(***************************************************************************)
\* the event: line and the data: line of an event have been received whole
\* and nothing has been received after them
EventAwaitsBlankLine(s) ==
  /\ xf[StrippingStreamOf(s)].lineBuffer = <<>>
  /\ xf[StrippingStreamOf(s)].currentEventType # <<>>
  /\ xf[StrippingStreamOf(s)].currentData # <<>>

\* C35 (as stated): when the stream ends after the event: and data: lines of
\* an event but before its blank line, flush processes the event as if the
\* blank line had arrived, and emits it.
C35_Original ==
  [][\A s \in Streams :
       (phase[s] = "open" /\ phase'[s] = "closed" /\ EventAwaitsBlankLine(s)) =>
         LET a == TransformChunk(WorldOf(s), <<NL>>, 0)
         IN OutOf(s)' = a.out \o FlushedDeltas(a.trackedBlocks)]_vars

\* C36 (as stated): a call through the intercepted fetch passes one request
\* to originalFetch; when the request with the rewritten body fails, the call
\* rejects and nothing is sent again.
C36_Original ==
  [][/\ Len(requests') <= 1
     /\ (flight.stage = "rewritten" /\ flight' # flight /\ outcome'.kind # "response") =>
          (outcome'.kind = "rejected" /\ flight'.stage = "idle")]_vars

\* C37 (as stated): a set() of a process bound to a session directory leaves
\* in the file every entry of another id that the file held, whichever
\* process wrote it, and adds its own; so the file ends with the entries of
\* all ids set by the processes of the directory.
C37_Original ==
  [][\A p \in Procs : (IsCall("set") /\ last'.proc = p /\ sessionDir[p] # NoDir) =>
       LET d == sessionDir[p]
       IN /\ last'.id \in DOMAIN files'[d].data
          /\ \A k \in DOMAIN files[d].data \ {last'.id} :
               /\ k \in DOMAIN files'[d].data
               /\ files'[d].data[k] = files[d].data[k]]_vars

(***************************************************************************)
(* Claims about the code promise, the resources of a flow and the session  *)
(* tool cache                                                              *)
(***************************************************************************)
\* the step answers a request, to the callback path or to another one
AnswersCallback == handled'.n = handled.n + 1 /\ handled'.path = CALLBACK_PATH
AnswersOtherPath == handled'.n = handled.n + 1 /\ handled'.path # CALLBACK_PATH

\* C38: the code promise is settled at most once. A settled promise never
\* changes, whatever callback arrives later; a pending promise is settled by
\* a request to the callback path and by the timer, and by nothing but
\* these and a server error; a request to another path is answered 404 and
\* leaves the promise, the timer and the server as they were.
C38_SettledOnce ==
  [][/\ codePromise.state # "pending" => codePromise' = codePromise
     /\ (codePromise.state = "pending" /\ (AnswersCallback \/ timeout' = "fired")) =>
          codePromise'.state # "pending"
     /\ (codePromise.state = "pending" /\ codePromise'.state # "pending") =>
          \/ AnswersCallback
          \/ timeout = "pending" /\ timeout' = "fired"
          \/ codePromise'.error = <<"Callback server error: ", "error text">>
     /\ AnswersOtherPath =>
          /\ handled'.status = 404
          /\ UNCHANGED <<codePromise, timeout, server, listening>>]_vars

\* a callback with a valid code and state was answered 200 after the promise
\* had been rejected, and the promise is still rejected
C38_Witness ==
  /\ handled.n >= 2
  /\ handled.path = CALLBACK_PATH
  /\ handled.query = Query(Some("code-1"), Some(ExpectedState), None)
  /\ handled.status = 200
  /\ codePromise.state = "rejected"


\* authenticate() has returned or thrown, and startCallbackServer() had
\* returned a bound server before
Terminated == auth.pc \in {"returned", "thrown"}
WasBound ==
  \E i \in 1..Len(statuses) : statuses[i][1] = "Callback server listening on port "

\* C39 (as stated): once authenticate() has returned or thrown after the
\* callback server was bound, the server no longer listens and the timer is
\* no longer pending; and a flow cancelled while it waits for the code
\* terminates.
C39_Original ==
  /\ []((Terminated /\ WasBound) => (listening = {} /\ timeout # "pending"))
  /\ (cancelled /\ auth.pc = "waiting") ~> Terminated

\* the key of a cache entry is one of the session
EntryOf(key, sessionId) ==
  \E workspaceRootPath \in WorkspaceRootPaths : key = CacheKey(sessionId, workspaceRootPath)

\* C40 (as stated): a call of getSessionScopedTools for a session and path
\* that have an entry returns the cached instance and makes none; after
\* cleanupSessionScopedTools(sessionId) the cache holds no entry of the
\* session, and a getSessionScopedTools for the session that follows it makes
\* a new instance and returns it.
C40_Original ==
  [][/\ (toolCall'.op = "get" /\ toolCall' # toolCall
           /\ CacheKey(toolCall'.sessionId, toolCall'.workspaceRootPath)
                 \in DOMAIN sessionScopedToolsCache) =>
          /\ toolCall'.returned =
               sessionScopedToolsCache[CacheKey(toolCall'.sessionId,
                                                toolCall'.workspaceRootPath)]
          /\ UNCHANGED <<sessionScopedToolsCache, created>>
     /\ toolCall'.op = "cleanup" =>
          \A key \in DOMAIN sessionScopedToolsCache' : ~EntryOf(key, toolCall'.sessionId)
     /\ (toolCall.op = "cleanup" /\ toolCall'.op = "get"
           /\ toolCall'.sessionId = toolCall.sessionId) =>
          /\ created' = created + 1
          /\ toolCall'.returned = created']_vars

====
